---- MODULE Spec2Model ----
(***************************************************************************)
(* A model of the behaviour-dispatch protocol of simple-3dviz: the three   *)
(* hosts that run a dispatch pass (utils.render, the wx Window and the     *)
(* pygame Window), the Behaviour.Params flags, and the behaviours          *)
(* OnKeys, StartStopBehaviour, LocalModelRotation, CameraTrajectory,       *)
(* LightToCamera and SaveGif; and of the trajectory library (Linear, Join, *)
(* Repeat, BackAndForth, Circle, QuadraticBezier, Lines,                   *)
(* QuadraticBezierCurves).                                                 *)
(*                                                                         *)
(* Numbers: Python floats are modelled as exact rationals [n, d] in lowest *)
(* terms, numpy arrays as [shape, data] with the data in row-major order.  *)
(***************************************************************************)
EXTENDS Integers, Sequences, FiniteSets, TLC

(* ------------------------------ bounds --------------------------------- *)
\* number of generic behaviours (Behaviour subclasses with arbitrary flags)
NumB == 2
\* largest n_frames passed to render()
MaxFrames == 2
\* largest number of dispatch passes a window host is followed for
MaxPasses == 2
\* largest number of dispatch passes a window host is followed for when keys
\* are pressed
MaxKeyPasses == 3
\* largest number of key events between two passes
MaxBatch == 2
\* largest `stop` given to StartStopBehaviour
MaxStop == 3
\* largest denominator of a progress t handed to get_value and of 1/speed
MaxDen == 4
\* largest weight of a segment handed to Join
MaxWeight == 2
\* largest number of segments handed to Join
MaxSegs == 2
\* largest number of points handed to Lines and QuadraticBezierCurves
MaxPts == 4
\* largest absolute value of a coordinate handed to Circle
MaxCoord == 1
\* largest number of ticks a trajectory movement is followed for
MaxTicks == 6
\* largest every_n given to SaveGif
MaxEvery == 3
\* largest n_frames passed to render() with SaveGif in the list
MaxGifFrames == 6
\* ticks given to AddObjectsSequentially and CycleThroughObjects
MaxObjTicks == 6
\* largest interval of the two
MaxInterval == 2
\* wheel events between two ticks
MaxWheel == 2
\* passes of a window whose wheel is turned
MaxMousePasses == 3
\* passes of a window whose behaviours read the frame
MaxFramePasses == 4

VARIABLES
  host,          \* "render" | "wx" | "pygame": which host runs the passes
  pc,            \* position of the host: "start", "idle", "pass", "after", "end"
  behaviours,    \* the host's list of behaviours (render: the `behaviours` argument)
  params,        \* the Behaviour.Params object of the current (or last) pass
  i,             \* 1-based position of enumerate() in the list
  remove,        \* the `remove` list of indices (1-based)
  frame,         \* render: the loop variable `frame`
  n_frames,      \* render: the argument n_frames
  closing,       \* Window._closing
  paint_pending, \* wx: Refresh() was called and EVT_PAINT not yet handled
  rotatable,     \* some renderable of the scene has rotate_axis
  keys_down,     \* Window._keyboard.keys_down
  keys_up,       \* Window._keyboard.keys_up
  wheel_rotation,\* Window._mouse.wheel_rotation: <<>> is None, <<n>> the number n
  held,          \* environment: the keys physically held down
  act,           \* OnKeys._act
  keys,          \* OnKeys._keys
  cnt,           \* StartStopBehaviour._cnt
  start,         \* StartStopBehaviour._start
  stop,          \* StartStopBehaviour._stop
  passes,        \* history: number of dispatch passes begun
  lastCallPasses,\* history: number of passes begun with last_call = true
  prePass,       \* history: the list as it was when the current pass began
  prevParams,    \* history: the Params object as the previous pass left it
  log,           \* history: one record per behaviour ticked in the current pass
  removedEver,   \* history: behaviours removed at the end of earlier passes
  resized,       \* history: pygame handled WINDOWRESIZED in this iteration
  repaint,       \* history: the host repainted (wx: called Refresh) after the last pass
  fired,         \* history: number of calls of OnKeys.action
  cycles,        \* history: number of completed press-then-release cycles of the keys
  expected,      \* history: ticks of OnKeys that saw a key released after a tick that saw all held
  sawHeld,       \* history: the last tick of OnKeys found all its keys held
  dirty,         \* history: number of key events since the last pass began
  keyTicks,      \* history: ticks OnKeys received
  wrapTicks,     \* history: ticks StartStopBehaviour received
  innerTicks,    \* history: ticks StartStopBehaviour forwarded
  traj,          \* the Trajectory object built last (_TrajectoryMovement._trajectory)
  ctor,          \* history: the constructor or builder call that made traj
  arg,           \* history: <<t>> for the last call get_value(t), <<>> before any
  out,           \* history: what the last get_value call returned or raised
  mv_t,          \* _TrajectoryMovement._t
  speed,         \* _TrajectoryMovement._speed
  camera_position, \* scene.camera_position
  light,         \* scene.light
  offset,        \* LightToCamera._offset
  moveTicks,     \* history: ticks of the trajectory movement that returned
  prevCamera,    \* history: scene.camera_position when the current pass began
  gif_i,         \* SaveGif._i
  images,        \* SaveGif._images: the tick numbers of the frames held
  every_n,       \* SaveGif._every_n
  saves,         \* history: the animations written, each the frames it holds
  gifTicks,      \* history: ticks SaveGif received
  lastSave,      \* history: the passes on which SaveGif wrote the file
  sf_i,          \* SaveFrames._i
  frameCalls,    \* history: one record per call of params.frame()
  inits,         \* history: number of calls of SceneInit._init_func
  moved,         \* history: the wheel movements received since the last pass began
  wheelSeen,     \* history: wheel_rotation as the behaviours of the current pass see it
  wheelDue,      \* history: the sum of the wheel movements between the last two passes
  objects,       \* AddObjectsSequentially._objects / CycleThroughObjects._objects
  interval,      \* ._interval of the same behaviour
  ticks,         \* ._ticks of the same behaviour
  objIndex,      \* AddObjectsSequentially._index
  object,        \* CycleThroughObjects._object
  renderables,   \* the keys of scene._renderables
  added,         \* history: the scene.add calls of AddObjectsSequentially, with the tick
  switches,      \* history: the values CycleThroughObjects._object took
  objTicks,      \* history: ticks the behaviour received
  renders,       \* history: number of calls of scene.render()
  fbo            \* the framebuffer: the scene as the last scene.render() drew it

hostVars == <<host, pc, behaviours, params, i, remove, frame, n_frames,
              closing, paint_pending, rotatable>>
inputVars == <<keys_down, keys_up, wheel_rotation, held>>
behVars == <<act, keys, cnt, start, stop>>
passHist == <<passes, lastCallPasses, prePass, prevParams, log, removedEver, resized, repaint>>
keyHist == <<fired, cycles, expected, sawHeld, dirty, keyTicks>>
ssHist == <<wrapTicks, innerTicks>>
histVars == <<passHist, keyHist, ssHist>>
trajVars == <<traj, ctor, arg, out>>
moveVars == <<mv_t, speed, camera_position, light, offset, moveTicks>>
gifVars == <<gif_i, images, every_n, saves, gifTicks, lastSave>>
sceneVars == <<moveVars, prevCamera, gifVars>>
ioVars == <<sf_i, frameCalls>>
mouseHist == <<moved, wheelSeen, wheelDue>>
objVars == <<objects, interval, ticks, objIndex, object, renderables, added, switches, objTicks>>
drawVars == <<renders, fbo>>
moreVars == <<ioVars, inits, mouseHist, objVars, drawVars>>
extVars == <<trajVars, sceneVars, moreVars>>
vars == <<hostVars, inputVars, behVars, histVars, extVars>>

(* ------------------------------ numbers -------------------------------- *)
Abs(x) == IF x < 0 THEN -x ELSE x

RECURSIVE GCD(_, _)
GCD(a, b) == IF b = 0 THEN a ELSE GCD(b, a % b)

\* the rational n/d (d # 0) in lowest terms with a positive denominator
Rat(n, d) ==
  LET s == IF d < 0 THEN -1 ELSE 1
      g == GCD(Abs(n), Abs(d))
  IN  [n |-> (s * n) \div g, d |-> (s * d) \div g]

Zero == Rat(0, 1)
One == Rat(1, 1)
Two == Rat(2, 1)

RAdd(x, y) == Rat(x.n * y.d + y.n * x.d, x.d * y.d)
RSub(x, y) == Rat(x.n * y.d - y.n * x.d, x.d * y.d)
RMul(x, y) == Rat(x.n * y.n, x.d * y.d)
RDiv(x, y) == Rat(x.n * y.d, x.d * y.n)
RLe(x, y) == x.n * y.d <= y.n * x.d
RLt(x, y) == x.n * y.d < y.n * x.d
RAbs(x) == [n |-> Abs(x.n), d |-> x.d]

\* Python's x % m for a positive integer m: the result lies in [0, m)
RMod(x, m) == Rat(x.n % (m * x.d), x.d)

\* the rationals n/d with 1 <= d <= MaxDen between lo and hi (integers)
Rats(lo, hi) ==
  {r \in {Rat(n, d) : n \in (lo * MaxDen)..(hi * MaxDen), d \in 1..MaxDen} :
     lo * r.d <= r.n /\ r.n <= hi * r.d}

(* --------------------------- numpy arrays ------------------------------ *)
\* np.asarray of a number: a 0-d array
Scalar(r) == [shape |-> <<>>, data |-> <<r>>]

\* np.asarray of a list of numbers
Vector(s) == [shape |-> <<Len(s)>>, data |-> [k \in DOMAIN s |-> Rat(s[k], 1)]]

RECURSIVE Flatten(_)
Flatten(ps) == IF ps = <<>> THEN <<>> ELSE ps[1].data \o Flatten(Tail(ps))

\* np.asarray of a non-empty list of arrays of one shape
Stack(ps) == [shape |-> <<Len(ps)>> \o ps[1].shape, data |-> Flatten(ps)]

\* the number of elements of one item x[k] of the array x
ItemSize(x) == IF x.shape[1] = 0 THEN 0 ELSE Len(x.data) \div x.shape[1]

\* x[k], k counted from 0
Item(x, k) ==
  [shape |-> Tail(x.shape),
   data |-> SubSeq(x.data, k * ItemSize(x) + 1, (k + 1) * ItemSize(x))]

VAdd(x, y) == [shape |-> x.shape, data |-> [k \in DOMAIN x.data |-> RAdd(x.data[k], y.data[k])]]
VSub(x, y) == [shape |-> x.shape, data |-> [k \in DOMAIN x.data |-> RSub(x.data[k], y.data[k])]]
VScale(r, x) == [shape |-> x.shape, data |-> [k \in DOMAIN x.data |-> RMul(r, x.data[k])]]

(* ---------------------------- trajectories ----------------------------- *)
NoValue == Scalar(Zero)

\* a Trajectory object; segs holds the segments of a Join and the decorated
\* trajectory of Repeat and BackAndForth
Trajectory(kind, a, b, c, weights, segs) ==
  [kind |-> kind, a |-> a, b |-> b, c |-> c, weights |-> weights, segs |-> segs]

\* no object was built; the call raised `err`
Raised(err) == Trajectory(err, NoValue, NoValue, NoValue, <<>>, <<>>)

Errors == {"ValueError", "IndexError", "TypeError", "AssertionError",
           "ZeroDivisionError", "NotImplementedError"}

NoTraj == Trajectory("None", NoValue, NoValue, NoValue, <<>>, <<>>)

Linear(a, b) == Trajectory("Linear", a, b, NoValue, <<>>, <<>>)

QuadraticBezier(A, B, C) == Trajectory("QuadraticBezier", A, B, C, <<>>, <<>>)

\* Join.__init__: the weights are replaced by their running sums
RECURSIVE CumulativeWeights(_)
CumulativeWeights(ws) ==
  IF ws = <<>> THEN <<>>
  ELSE LET front == CumulativeWeights(SubSeq(ws, 1, Len(ws) - 1))
       IN  Append(front, IF front = <<>> THEN ws[Len(ws)]
                         ELSE RAdd(ws[Len(ws)], front[Len(front)]))

\* Join(trajectories), trajectories a list of [w, tr]
Join(trajectories) ==
  Trajectory("Join", NoValue, NoValue, NoValue,
             CumulativeWeights([k \in DOMAIN trajectories |-> trajectories[k].w]),
             [k \in DOMAIN trajectories |-> trajectories[k].tr])

Repeat(inner) == Trajectory("Repeat", NoValue, NoValue, NoValue, <<>>, <<inner>>)

BackAndForth(inner) == Trajectory("BackAndForth", NoValue, NoValue, NoValue, <<>>, <<inner>>)

\* what a get_value call gives: a value, or the exception it raised
Return(v) == [err |-> "", v |-> v]
Raise(err) == [err |-> err, v |-> NoValue]

\* faulty variant: every progress is accepted
InDomainAny(t) == TRUE

\* `0 <= t <= 1`
InDomain(t) == RLe(Zero, t) /\ RLe(t, One)

\* faulty variant: the line is walked from b to a
LinearValueReversed(tr, t) == VAdd(tr.b, VScale(t, VSub(tr.a, tr.b)))

\* `self._a + t * (self._b - self._a)`
LinearValue(tr, t) == VAdd(tr.a, VScale(t, VSub(tr.b, tr.a)))

\* `(1-t)**2 * self._A + 2*(1-t)*t * self._B + t**2 * self._C`
QuadraticBezierValue(tr, t) ==
  LET u == RSub(One, t)
  IN  VAdd(VAdd(VScale(RMul(u, u), tr.a), VScale(RMul(Two, RMul(u, t)), tr.b)),
           VScale(RMul(t, t), tr.c))

\* faulty variant: bisect_left, the first index whose element is not below x
bisect_left(a, x) == Cardinality({k \in DOMAIN a : RLt(a[k], x)})

\* bisect.bisect_right on a sorted list: the first index (from 0) whose
\* element is greater than x, len(a) when there is none
bisect_right(a, x) == Cardinality({k \in DOMAIN a : RLe(a[k], x)})

\* Join.get_value after the domain check: the segment (index from 0) and the
\* progress handed to it, or the error of the division
JoinDelegate(tr, t) ==
  LET w == RMul(t, tr.weights[Len(tr.weights)])
      index == bisect_right(tr.weights, w)
  IN  IF index = Len(tr.segs)
        THEN [seg |-> Len(tr.segs) - 1, local |-> One, err |-> ""]
        ELSE LET max_weight == tr.weights[index + 1]
                 prev_weight == IF index = 0 THEN Zero ELSE tr.weights[index]
             IN  IF max_weight = prev_weight
                   THEN [seg |-> index, local |-> Zero, err |-> "ZeroDivisionError"]
                   ELSE [seg |-> index,
                         local |-> RDiv(RSub(w, prev_weight),
                                        RSub(max_weight, prev_weight)),
                         err |-> ""]

\* faulty variant: the way back is not mirrored
BackAndForthWrap(t) == RMod(t, 1)

\* BackAndForth.get_value: `t = t % 2`, `2-t if t > 1 else t`
BackAndForthArg(t) ==
  LET tt == RMod(t, 2)
  IN  IF RLt(One, tt) THEN RSub(Two, tt) ELSE tt

\* the trajectory a get_value(t) call hands over to and the progress it hands
\* over; seg is -1 for a trajectory that computes the value itself
Delegate(tr, t) ==
  CASE tr.kind = "Join" -> JoinDelegate(tr, t)
    [] tr.kind = "Repeat" -> [seg |-> 0, local |-> RMod(t, 1)]
    [] tr.kind = "BackAndForth" -> [seg |-> 0, local |-> BackAndForthArg(t)]
    [] OTHER -> [seg |-> -1, local |-> t]

RECURSIVE get_value(_, _)
get_value(tr, t) ==
  CASE tr.kind = "Linear" ->
         IF ~InDomain(t) THEN Raise("ValueError") ELSE Return(LinearValue(tr, t))
    [] tr.kind = "QuadraticBezier" ->
         IF ~InDomain(t) THEN Raise("ValueError") ELSE Return(QuadraticBezierValue(tr, t))
    [] tr.kind = "Join" ->
         IF ~InDomain(t) THEN Raise("ValueError")
         ELSE IF tr.weights = <<>> THEN Raise("IndexError")
         ELSE IF JoinDelegate(tr, t).err # "" THEN Raise(JoinDelegate(tr, t).err)
         ELSE get_value(tr.segs[Delegate(tr, t).seg + 1], Delegate(tr, t).local)
    [] tr.kind \in {"Repeat", "BackAndForth"} ->
         get_value(tr.segs[1], Delegate(tr, t).local)

\* np.asarray(points) of Lines and QuadraticBezierCurves: several arguments
\* are the points, a lone argument is taken as the iterable of the points
AsPoints(args) ==
  IF Len(args) > 1 THEN [err |-> "", x |-> Stack(args)]
  ELSE IF Len(args) = 0 THEN [err |-> "IndexError", x |-> NoValue]
  ELSE [err |-> "", x |-> args[1]]

\* Lines(*args)
Lines(args) ==
  LET p == AsPoints(args)
  IN  IF p.err # "" THEN Raised(p.err)
      ELSE IF p.x.shape = <<>> THEN Raised("TypeError")
      ELSE IF ~(p.x.shape[1] > 1) THEN Raised("AssertionError")
      ELSE Join([k \in 1..(p.x.shape[1] - 1) |->
                   [w |-> One, tr |-> Linear(Item(p.x, k - 1), Item(p.x, k))]])

\* QuadraticBezierCurves(*args)
QuadraticBezierCurves(args) ==
  LET p == AsPoints(args)
  IN  IF p.err # "" THEN Raised(p.err)
      ELSE IF p.x.shape = <<>> THEN Raised("TypeError")
      ELSE IF ~(p.x.shape[1] > 2) THEN Raised("AssertionError")
      ELSE IF ~(p.x.shape[1] % 2 = 1) THEN Raised("AssertionError")
      ELSE Join([k \in 1..((p.x.shape[1] - 1) \div 2) |->
                   [w |-> One,
                    tr |-> QuadraticBezier(Item(p.x, 2 * k - 2), Item(p.x, 2 * k - 1),
                                           Item(p.x, 2 * k))]])

Dot(x, y) == x[1] * y[1] + x[2] * y[2] + x[3] * y[3]

\* `cosangle > 0.01` of Circle.__init__ for integer vectors; with a zero
\* vector the quotient is nan and the comparison is false
CosangleAbove(normal, radial) ==
  /\ Dot(normal, normal) > 0
  /\ Dot(radial, radial) > 0
  /\ Dot(normal, radial) > 0
  /\ 10000 * Dot(normal, radial) * Dot(normal, radial) >
       Dot(normal, normal) * Dot(radial, radial)

\* Circle(center, point, normal)
Circle(center, point, normal) ==
  LET radial == [k \in 1..3 |-> point[k] - center[k]]
  IN  IF CosangleAbove(normal, radial) THEN Raised("ValueError")
      ELSE Trajectory("Circle", Vector(center), Vector(point), Vector(normal), <<>>, <<>>)

(* ---------------------------- behaviours ------------------------------- *)
Generic(n) == [kind |-> "Generic", n |-> n]
LocalModelRotation == [kind |-> "LocalModelRotation", n |-> 0]
OnKeys == [kind |-> "OnKeys", n |-> 0]
\* StartStopBehaviour(Generic(1), start, stop)
StartStopBehaviour == [kind |-> "StartStopBehaviour", n |-> 0]
\* CameraTrajectory(traj, speed), the _TrajectoryMovement of the model
CameraTrajectory == [kind |-> "CameraTrajectory", n |-> 0]
\* LightToCamera(offset)
LightToCamera == [kind |-> "LightToCamera", n |-> 0]
\* SaveGif(path, every_n)
SaveGif == [kind |-> "SaveGif", n |-> 0]
\* SceneInit(scene_init)
SceneInit == [kind |-> "SceneInit", n |-> 0]
\* an instance of a class that does not override behave()
Behaviour == [kind |-> "Behaviour", n |-> 0]
\* SaveFrames(path, every_n)
SaveFrames == [kind |-> "SaveFrames", n |-> 0]
\* SnapshotOnKey(path, keys)
SnapshotOnKey == [kind |-> "SnapshotOnKey", n |-> 0]
\* AddObjectsSequentially(objects, interval)
AddObjectsSequentially == [kind |-> "AddObjectsSequentially", n |-> 0]
\* CycleThroughObjects(objects, interval)
CycleThroughObjects == [kind |-> "CycleThroughObjects", n |-> 0]

Pool == {Generic(n) : n \in 1..NumB} \cup {LocalModelRotation}

\* the lists add_behaviour() can build from a pool: no behaviour twice
RECURSIVE ListsOver(_)
ListsOver(S) ==
  {<<>>} \cup UNION {{<<b>> \o l : l \in ListsOver(S \ {b})} : b \in S}

\* The generic behaviours are interchangeable, so of the lists that differ only
\* in which generic behaviour stands where, the one that uses Generic(1),
\* Generic(2), ... in this order stands for all.
Canonical(l) ==
  LET g == SelectSeq(l, LAMBDA b : b.kind = "Generic")
  IN  \A k \in 1..Len(g) : g[k] = Generic(k)

Lists == {l \in ListsOver(Pool) : Canonical(l)}

\* what a generic behave() does to the flags: it may assign refresh (True or
\* False), set done, set stop_propagation
Choices == [done : BOOLEAN, stop : BOOLEAN, refresh : {"none", "true", "false"}]

\* kinds whose behave() is fixed take the one neutral choice
NoChoice == [done |-> FALSE, stop |-> FALSE, refresh |-> "none"]

ChoicesOf(b) ==
  IF b.kind \in {"Generic", "StartStopBehaviour"} THEN Choices ELSE {NoChoice}

\* the character keys of the model; "S" is the default key of SnapshotOnKey
Keys == {"S", "T"}

(* ------------------------- Behaviour.Params ---------------------------- *)
\* faulty variant: the flags of the previous pass survive into the next one
ParamsStale(last_call) == [params EXCEPT !.last_call = last_call]

Params(last_call) ==
  [last_call |-> last_call, stop |-> FALSE, done |-> FALSE, refresh |-> FALSE]

\* faulty variant: a plain assignment instead of the sticky or
SetRefreshAssign(p, r) == [p EXCEPT !.refresh = r]

SetRefresh(p, r) == [p EXCEPT !.refresh = p.refresh \/ (r = TRUE)]

SetDone(p, d) == [p EXCEPT !.done = d]

SetStop(p, s) == [p EXCEPT !.stop = s]

\* before the first pass there is no Params object: no flag is set
NoParams ==
  [last_call |-> FALSE, stop |-> FALSE, done |-> FALSE, refresh |-> FALSE]

(* ----------------------------- behave() -------------------------------- *)
\* What one behave() call leaves: the Params p, the behaviour's own fields
\* (act, cnt), whether OnKeys.action ran (fire), whether StartStopBehaviour
\* forwarded the tick (fwd), and the value assigned to params.refresh
\* ("none" when behave() made no assignment).
Result(p, a, n, fire, fwd, refresh) ==
  [p |-> p, act |-> a, cnt |-> n, fire |-> fire, fwd |-> fwd, refresh |-> refresh]

\* a behave() that assigns the flags as the choice c says
GenericBehave(p, c) ==
  LET p1 == IF c.refresh = "none" THEN p ELSE SetRefresh(p, c.refresh = "true")
      p2 == IF c.done THEN SetDone(p1, TRUE) ELSE p1
      p3 == IF c.stop THEN SetStop(p2, TRUE) ELSE p2
  IN  Result(p3, act, cnt, FALSE, FALSE, c.refresh)

\* LocalModelRotation.behave: params.refresh = refresh, True iff a renderable rotated
LocalModelRotationBehave(p) ==
  Result(SetRefresh(p, rotatable), act, cnt, FALSE, FALSE,
         IF rotatable THEN "true" ELSE "false")

\* faulty variant: a level detector, action() runs on every tick that finds the keys down
OnKeysBehaveLevel(p) ==
  IF (keys_down \cap keys) = keys
    THEN Result(p, TRUE, cnt, TRUE, FALSE, "none")
    ELSE Result(p, FALSE, cnt, FALSE, FALSE, "none")

\* OnKeys.behave; action() itself is abstract and touches no flag here
OnKeysBehave(p) ==
  IF (keys_down \cap keys) = keys
    THEN Result(p, TRUE, cnt, FALSE, FALSE, "none")
    ELSE IF act /\ (keys_up \cup keys) # {}
      THEN Result(p, FALSE, cnt, TRUE, FALSE, "none")
      ELSE Result(p, act, cnt, FALSE, FALSE, "none")

\* faulty variant: the window is taken half-open at the wrong ends
StartStopBehaveShifted(p, c) ==
  LET n == cnt + 1
  IN  IF stop > n /\ n >= start
        THEN [GenericBehave(p, c) EXCEPT !.cnt = n, !.fwd = TRUE]
        ELSE Result(p, act, n, FALSE, FALSE, "none")

\* StartStopBehaviour.behave around a generic behaviour
StartStopBehave(p, c) ==
  LET n == cnt + 1
  IN  IF stop >= n /\ n > start
        THEN [GenericBehave(p, c) EXCEPT !.cnt = n, !.fwd = TRUE]
        ELSE Result(p, act, n, FALSE, FALSE, "none")

\* faulty variant: the trajectory is sampled after the progress was advanced
TrajectorySampleAfter(t0, s) == RAdd(t0, s)

\* `v = self._trajectory.get_value(self._t)`: the progress that is sampled
TrajectorySample(t0, s) == t0

\* _TrajectoryMovement.behave raises when get_value does
TrajectoryMovementRaises ==
  get_value(traj, TrajectorySample(mv_t, speed)).err # ""

\* faulty variant: the progress is advanced although get_value raised
AdvanceAlways(t0, s, raised) == RAdd(t0, s)

\* `self._t += self._speed`, reached only when get_value returned
Advance(t0, s, raised) == IF raised THEN t0 ELSE RAdd(t0, s)

\* CameraTrajectory._adjust: the value is written, params.refresh = True
CameraTrajectoryBehave(p) ==
  Result(SetRefresh(p, TRUE), act, cnt, FALSE, FALSE, "true")

\* np.allclose(a, b) with the default rtol = 1e-5 and atol = 1e-8; scene
\* coordinates are counted in units of 1e-8, so that atol is 1
Rtol == Rat(1, 100000)
Atol == One

\* faulty variant: the light is moved only when the position is far off
AllCloseWide(a, b) ==
  \A k \in DOMAIN a.data :
    RLe(RAbs(RSub(a.data[k], b.data[k])), RAdd(Two, RMul(Rtol, RAbs(b.data[k]))))

AllClose(a, b) ==
  \A k \in DOMAIN a.data :
    RLe(RAbs(RSub(a.data[k], b.data[k])), RAdd(Atol, RMul(Rtol, RAbs(b.data[k]))))

\* LightToCamera.behave: `newpos = params.scene.camera_position + self._offset`
LightToCameraNewpos == VAdd(camera_position, offset)

\* LightToCamera.behave: nothing is done when the light is close to newpos
LightToCameraBehave(p) ==
  IF AllClose(LightToCameraNewpos, light)
    THEN Result(p, act, cnt, FALSE, FALSE, "none")
    ELSE Result(SetRefresh(p, TRUE), act, cnt, FALSE, FALSE, "true")

\* faulty variant: the last tick captures only when its count is a multiple
SaveGifCapturesPlain(n, last_call) == (n % every_n) = 0

\* SaveGif.behave goes past `if not params.last_call and (i % every_n) != 0: return`
SaveGifCaptures(n, last_call) == ~(~last_call /\ (n % every_n) # 0)

\* SaveGif.behave touches no flag
SaveGifBehave(p) == Result(p, act, cnt, FALSE, FALSE, "none")

\* faulty variant: the later behaviours are still ticked
SceneInitBehaveNoStop(p) ==
  Result(SetRefresh(SetDone(p, TRUE), TRUE), act, cnt, FALSE, FALSE, "true")

\* SceneInit.behave: done, stop_propagation and refresh are set
SceneInitBehave(p) ==
  Result(SetRefresh(SetStop(SetDone(p, TRUE), TRUE), TRUE), act, cnt, FALSE, FALSE, "true")

\* faulty variant: every tick is captured
SaveFramesCapturesAll(n) == TRUE

\* SaveFrames.behave goes past `if (self._i % self._every_n) != 0: return`
SaveFramesCaptures(n) == (n % every_n) = 0

\* SaveFrames.behave touches no flag
SaveFramesBehave(p) == Result(p, act, cnt, FALSE, FALSE, "none")

\* `self._ticks += 1`, `if self._ticks > self._interval` for _ticks = tk
ObjectsDue(tk) == tk + 1 > interval

\* AddObjectsSequentially.behave and CycleThroughObjects.behave set refresh
\* on the ticks that change the scene
ObjectsBehave(p) ==
  IF ObjectsDue(ticks)
    THEN Result(SetRefresh(p, TRUE), act, cnt, FALSE, FALSE, "true")
    ELSE Result(p, act, cnt, FALSE, FALSE, "none")

\* behave() of the base class raises NotImplementedError; of a trajectory
\* movement, what get_value raises
Raises(b) ==
  \/ b.kind = "Behaviour"
  \/ b.kind = "CameraTrajectory" /\ TrajectoryMovementRaises

Behave(b, p, c) ==
  CASE b.kind = "Generic" -> GenericBehave(p, c)
    [] b.kind = "SceneInit" -> SceneInitBehave(p)
    [] b.kind = "SaveFrames" -> SaveFramesBehave(p)
    [] b.kind = "SnapshotOnKey" -> OnKeysBehave(p)
    [] b.kind \in {"AddObjectsSequentially", "CycleThroughObjects"} -> ObjectsBehave(p)
    [] b.kind = "LocalModelRotation" -> LocalModelRotationBehave(p)
    [] b.kind = "OnKeys" -> OnKeysBehave(p)
    [] b.kind = "StartStopBehaviour" -> StartStopBehave(p, c)
    [] b.kind = "CameraTrajectory" -> CameraTrajectoryBehave(p)
    [] b.kind = "LightToCamera" -> LightToCameraBehave(p)
    [] b.kind = "SaveGif" -> SaveGifBehave(p)

\* behave() of b calls params.frame(): SaveFrames and SaveGif on the ticks
\* they capture, SnapshotOnKey in its action()
FrameCalled(b) ==
  CASE b.kind = "SaveFrames" -> SaveFramesCaptures(sf_i + 1)
    [] b.kind = "SaveGif" -> SaveGifCaptures(gif_i + 1, params.last_call)
    [] b.kind = "SnapshotOnKey" -> OnKeysBehave(params).fire
    [] OTHER -> FALSE

\* the record of a call of params.frame(): the caller, the pass, the number
\* of ticks the caller has received, last_call, and the frame returned
FrameCall(b) ==
  [by |-> b.kind,
   pass |-> passes,
   n |-> CASE b.kind = "SaveFrames" -> sf_i + 1
           [] b.kind = "SaveGif" -> gifTicks + 1
           [] OTHER -> keyTicks + 1,
   last_call |-> params.last_call,
   shown |-> fbo]

\* the elements of a list
Range(l) == {l[k] : k \in DOMAIN l}

\* l[k] of Python for a list l: a negative k counts from the end
PyItem(l, k) == l[IF k < 0 THEN Len(l) + k + 1 ELSE k + 1]

\* faulty variant: the previous group is left in the scene
CycleKept(rs, group) == rs

\* `for o in self._objects[self._object]: params.scene.remove(o)`
CycleRemoved(rs, group) == rs \ Range(group)

\* AddObjectsSequentially.behave and CycleThroughObjects.behave, for
\* non-empty lists of objects
ObjectsStep(b) ==
  CASE b.kind = "AddObjectsSequentially" ->
         /\ objTicks' = objTicks + 1
         /\ IF ObjectsDue(ticks)
              THEN LET wrap == objIndex >= Len(objects)
                       k == IF wrap THEN 0 ELSE objIndex
                       rs == IF wrap THEN renderables \ Range(objects) ELSE renderables
                   IN  /\ ticks' = 0
                       /\ renderables' = rs \cup {PyItem(objects, k)}
                       /\ objIndex' = k + 1
                       /\ added' = Append(added, [o |-> PyItem(objects, k),
                                                  tick |-> objTicks + 1])
              ELSE /\ ticks' = ticks + 1
                   /\ UNCHANGED <<renderables, objIndex, added>>
         /\ UNCHANGED <<objects, interval, object, switches>>
    [] b.kind = "CycleThroughObjects" ->
         /\ objTicks' = objTicks + 1
         /\ IF ObjectsDue(ticks)
              THEN LET nxt == (object + 1) % Len(objects)
                   IN  /\ ticks' = 0
                       /\ renderables' = CycleRemoved(renderables, PyItem(objects, object))
                                           \cup Range(PyItem(objects, nxt))
                       /\ object' = nxt
                       /\ switches' = Append(switches, [object |-> nxt,
                                                        tick |-> objTicks + 1])
              ELSE /\ ticks' = ticks + 1
                   /\ UNCHANGED <<renderables, object, switches>>
         /\ UNCHANGED <<objects, interval, objIndex, added>>
    [] OTHER -> UNCHANGED objVars

\* what behave() of b does to the scene and to the behaviour's own fields
SceneStep(b) ==
  /\ IF b.kind = "CameraTrajectory"
       THEN /\ camera_position' = get_value(traj, TrajectorySample(mv_t, speed)).v
            /\ mv_t' = Advance(mv_t, speed, FALSE)
            /\ moveTicks' = moveTicks + 1
       ELSE UNCHANGED <<camera_position, mv_t, moveTicks>>
  /\ light' = IF b.kind = "LightToCamera" /\ ~AllClose(LightToCameraNewpos, light)
                THEN LightToCameraNewpos
                ELSE light
  /\ IF b.kind = "SaveGif"
       THEN LET n == gif_i + 1
                held_images == IF SaveGifCaptures(n, params.last_call)
                                 THEN Append(images, n) ELSE images
            IN  /\ gifTicks' = gifTicks + 1
                /\ IF params.last_call /\ SaveGifCaptures(n, params.last_call)
                     THEN /\ saves' = Append(saves, held_images)
                          /\ lastSave' = Append(lastSave, passes)
                          /\ gif_i' = 0
                          /\ images' = <<>>
                     ELSE /\ gif_i' = n
                          /\ images' = held_images
                          /\ UNCHANGED <<saves, lastSave>>
       ELSE UNCHANGED <<gif_i, images, saves, gifTicks, lastSave>>
  /\ UNCHANGED <<speed, offset, every_n, prevCamera, trajVars>>
  /\ sf_i' = IF b.kind = "SaveFrames" THEN sf_i + 1 ELSE sf_i
  /\ frameCalls' = IF FrameCalled(b) THEN Append(frameCalls, FrameCall(b)) ELSE frameCalls
  /\ inits' = inits + (IF b.kind = "SceneInit" THEN 1 ELSE 0)
  /\ ObjectsStep(b)
  /\ UNCHANGED <<mouseHist, drawVars>>

(* -------------------------- the dispatch pass -------------------------- *)
\* list.pop(k), 1-based
Pop(l, k) == SubSeq(l, 1, k - 1) \o SubSeq(l, k + 1, Len(l))

\* for i in reversed(remove): behaviours.pop(i)
RECURSIVE PopReversed(_, _)
PopReversed(l, rem) ==
  IF rem = <<>> THEN l
  ELSE PopReversed(Pop(l, rem[Len(rem)]), SubSeq(rem, 1, Len(rem) - 1))

\* faulty variant: the indices are popped in ascending order
RECURSIVE PopForward(_, _)
PopForward(l, rem) ==
  IF rem = <<>> THEN l
  ELSE PopForward(Pop(l, rem[1]), Tail(rem))

RemoveMarked(l, rem) == PopReversed(l, rem)

\* faulty variant: the loop goes on after stop_propagation was set
BreakNever(p) == FALSE

\* `if params.stop_propagation: break`
Break(p) == p.stop

\* faulty variant: done is left set for the behaviours that follow
AfterDoneKeep(p) == p

\* `if params.done: remove.append(i); params.done = False`
AfterDone(p) == IF p.done THEN SetDone(p, FALSE) ELSE p

\* one iteration of `for i, b in enumerate(behaviours)`: behave, the done
\* check and the stop_propagation check
DispatchStep ==
  /\ pc = "pass"
  /\ i <= Len(behaviours)
  /\ ~Raises(behaviours[i])
  /\ SceneStep(behaviours[i])
  /\ \E c \in ChoicesOf(behaviours[i]) :
       LET b  == behaviours[i]
           r  == Behave(b, params, c)
           p2 == AfterDone(r.p)
           allHeld == keys \subseteq held
       IN  /\ remove' = IF r.p.done THEN Append(remove, i) ELSE remove
           /\ params' = p2
           /\ act' = r.act
           /\ cnt' = r.cnt
           /\ log' = Append(log, [b |-> b, done |-> r.p.done /\ ~params.done,
                                  stop |-> r.p.stop, refresh |-> r.refresh,
                                  fire |-> r.fire])
           /\ IF Break(p2) \/ i = Len(behaviours)
                THEN pc' = "after" /\ i' = i
                ELSE pc' = "pass" /\ i' = i + 1
           /\ fired' = fired + (IF r.fire THEN 1 ELSE 0)
           /\ IF b.kind \in {"OnKeys", "SnapshotOnKey"}
                THEN /\ expected' = expected + (IF sawHeld /\ ~allHeld THEN 1 ELSE 0)
                     /\ sawHeld' = allHeld
                     /\ keyTicks' = keyTicks + 1
                ELSE UNCHANGED <<expected, sawHeld, keyTicks>>
           /\ wrapTicks' = wrapTicks + (IF b.kind = "StartStopBehaviour" THEN 1 ELSE 0)
           /\ innerTicks' = innerTicks + (IF r.fwd THEN 1 ELSE 0)
  /\ UNCHANGED <<host, behaviours, frame, n_frames, closing, paint_pending, rotatable>>
  /\ UNCHANGED <<inputVars, keys, start, stop, cycles, dirty>>
  /\ UNCHANGED <<passes, lastCallPasses, prePass, prevParams, removedEver, resized, repaint>>

\* faulty variant: the list is tidied up although the pass was left
AfterRaiseTidy(l, rem, last_call) ==
  IF last_call THEN <<>> ELSE PopReversed(l, rem)

\* the exception skips the pops of the marked behaviours and the clear
AfterRaise(l, rem, last_call) == l

\* an iteration of the loop in which behave() raises: the exception leaves the
\* loop and the host's handler, nothing after the get_value call was done
DispatchRaise ==
  /\ pc = "pass"
  /\ i <= Len(behaviours)
  /\ Raises(behaviours[i])
  /\ pc' = "raised"
  /\ mv_t' = Advance(mv_t, speed, TRUE)
  /\ behaviours' = AfterRaise(behaviours, remove, params.last_call)
  /\ UNCHANGED <<host, params, i, remove, frame, n_frames, closing,
                 paint_pending, rotatable>>
  /\ UNCHANGED <<inputVars, behVars, histVars, trajVars>>
  /\ UNCHANGED <<speed, camera_position, light, offset, moveTicks, prevCamera, gifVars>>
  /\ UNCHANGED moreVars

\* what every host does when a pass begins: the Params object and the loop state
BeginPass(last_call) ==
  /\ prevCamera' = camera_position
  /\ params' = Params(last_call)
  /\ i' = 1
  /\ remove' = <<>>
  /\ pc' = IF behaviours = <<>> THEN "after" ELSE "pass"
  /\ passes' = passes + 1
  /\ lastCallPasses' = lastCallPasses + (IF last_call THEN 1 ELSE 0)
  /\ prePass' = behaviours
  /\ prevParams' = params
  /\ log' = <<>>
  /\ dirty' = 0

\* the behaviours of `l` that are no longer in `m`
Gone(l, m) == {l[k] : k \in 1..Len(l)} \ {m[k] : k \in 1..Len(m)}

(* ------------------------------ render() ------------------------------- *)
\* a picture of the scene: the camera position and the renderables
Shown(cam, rs) == [camera |-> cam, renderables |-> rs]

\* what scene.render() leaves in the framebuffer
Drawn == <<Shown(camera_position, renderables)>>

\* faulty variant: the scene is not rendered
RenderedNever(n) == n

\* `scene.render()` at the top of the loop body of render()
Rendered(n) == n + 1

\* top of `for frame in range(n_frames)`: scene.render() and the Params
RenderFrame ==
  /\ host = "render"
  /\ pc = "idle"
  /\ frame < n_frames
  /\ renders' = Rendered(renders)
  /\ fbo' = (IF Rendered(renders) > renders THEN Drawn ELSE fbo)
  /\ BeginPass(frame = n_frames - 1)
  /\ UNCHANGED <<host, behaviours, frame, n_frames, closing, paint_pending, rotatable>>
  /\ UNCHANGED <<inputVars, behVars, ssHist>>
  /\ UNCHANGED <<removedEver, resized, repaint, fired, cycles, expected, sawHeld, keyTicks>>
  /\ UNCHANGED <<trajVars, moveVars, gifVars, ioVars, inits, mouseHist, objVars>>

\* the end of the loop body: the marked behaviours are popped; next frame
RenderEndPass ==
  /\ host = "render"
  /\ pc = "after"
  /\ behaviours' = RemoveMarked(behaviours, remove)
  /\ removedEver' = removedEver \cup Gone(behaviours, behaviours')
  /\ frame' = frame + 1
  /\ pc' = "idle"
  /\ UNCHANGED <<host, params, i, remove, n_frames, closing, paint_pending, rotatable>>
  /\ UNCHANGED <<inputVars, behVars, keyHist, ssHist>>
  /\ UNCHANGED <<passes, lastCallPasses, prePass, prevParams, log, resized, repaint>>
  /\ UNCHANGED extVars

\* range(n_frames) is exhausted: render() returns
RenderReturn ==
  /\ host = "render"
  /\ pc = "idle"
  /\ frame >= n_frames
  /\ pc' = "end"
  /\ UNCHANGED <<host, behaviours, params, i, remove, frame, n_frames, closing,
                 paint_pending, rotatable>>
  /\ UNCHANGED <<inputVars, behVars, histVars>>
  /\ UNCHANGED extVars

(* ------------------------------ wx Window ------------------------------ *)
\* `wheel_rotation += ...` while wheel_rotation is still the None of
\* Mouse(None, None, None, None) raises TypeError
WheelRaises(w, wheels) == w = <<>> /\ wheels # <<>>

\* the sum of a list of numbers
RECURSIVE SumOf(_)
SumOf(l) == IF l = <<>> THEN 0 ELSE l[1] + SumOf(Tail(l))

\* _Canvas._on_paint: the first paint makes the scene and starts the ticker
WxPaint ==
  /\ host = "wx"
  /\ pc \in (IF paint_pending THEN {"start", "idle"} ELSE {"start"})
  /\ pc' = "idle"
  /\ paint_pending' = FALSE
  /\ fbo' = Drawn
  /\ UNCHANGED <<host, behaviours, params, i, remove, frame, n_frames, closing, rotatable>>
  /\ UNCHANGED <<inputVars, behVars, histVars>>
  /\ UNCHANGED <<trajVars, sceneVars, ioVars, inits, mouseHist, objVars, renders>>

\* _Frame._on_close: Destroy() when _closing was already set; then _closing = True
OnCloseDestroys == closing

\* the EVT_CLOSE handler, called by the window system
WxClose ==
  /\ host = "wx"
  /\ pc \in {"start", "idle"}
  /\ pc' = IF OnCloseDestroys THEN "end" ELSE pc
  /\ closing' = TRUE
  /\ UNCHANGED <<host, behaviours, params, i, remove, frame, n_frames, paint_pending,
                 rotatable>>
  /\ UNCHANGED <<inputVars, behVars, histVars>>
  /\ UNCHANGED extVars

\* _Canvas._on_tick up to the loop of Window._behave: the ticker runs from the
\* first paint on
WxTick ==
  /\ host = "wx"
  /\ pc = "idle"
  /\ BeginPass(closing)
  /\ wheelSeen' = wheel_rotation
  /\ wheelDue' = moved
  /\ moved' = 0
  /\ UNCHANGED <<host, behaviours, frame, n_frames, closing, paint_pending, rotatable>>
  /\ UNCHANGED <<inputVars, behVars, ssHist>>
  /\ UNCHANGED <<removedEver, resized, repaint, fired, cycles, expected, sawHeld, keyTicks>>
  /\ UNCHANGED <<trajVars, moveVars, gifVars, ioVars, inits, objVars, drawVars>>

\* faulty variant: Refresh() is called after every tick
WxRefreshAlways(r) == TRUE

\* `if self._window._behave(event): self.Refresh()`
WxRefresh(r) == r

\* the rest of Window._behave and of _on_tick: the marked behaviours are
\* popped, the list is cleared when closing, Refresh() when refresh is set,
\* _on_close(None) when closing, the wheel and keys_up are reset
WxEndTick ==
  /\ host = "wx"
  /\ pc = "after"
  /\ behaviours' = IF closing THEN <<>> ELSE RemoveMarked(behaviours, remove)
  /\ removedEver' = removedEver \cup Gone(behaviours, behaviours')
  /\ repaint' = WxRefresh(params.refresh)
  /\ paint_pending' = (paint_pending \/ WxRefresh(params.refresh))
  /\ pc' = IF closing /\ OnCloseDestroys THEN "end" ELSE "idle"
  /\ closing' = closing
  /\ wheel_rotation' = <<0>>
  /\ keys_up' = {}
  /\ UNCHANGED <<host, params, i, remove, frame, n_frames, rotatable>>
  /\ UNCHANGED <<keys_down, held, behVars, keyHist, ssHist>>
  /\ UNCHANGED <<passes, lastCallPasses, prePass, prevParams, log, resized>>
  /\ UNCHANGED extVars

\* the `keys` of _Canvas._on_keyboard: the conditional expression binds
\* weaker than +, so a character key gives {key} and the modifiers are
\* looked at only when the event has no character
WxEventKeys(key, mods) == IF key # "\\00" THEN {key} ELSE mods

\* _Canvas._on_keyboard for the character key `key`, pressed (down) or released
WxKeyboard(key, down) ==
  /\ host = "wx"
  /\ pc = "idle"
  /\ (key \in held) = ~down
  /\ LET ks == WxEventKeys(key, {})
     IN  IF down
           THEN /\ keys_down' = keys_down \cup ks
                /\ keys_up' = keys_up
           ELSE /\ keys_up' = keys_up \cup (ks \cup keys_down)
                /\ keys_down' = keys_down \ ks
  /\ held' = IF down THEN held \cup {key} ELSE held \ {key}
  /\ cycles' = cycles + (IF ~down /\ keys \subseteq held /\ key \in keys THEN 1 ELSE 0)
  /\ dirty' = dirty + 1
  /\ UNCHANGED <<hostVars, wheel_rotation, behVars, passHist, ssHist>>
  /\ UNCHANGED <<fired, expected, sawHeld, keyTicks>>
  /\ UNCHANGED extVars

\* _Canvas._on_mouse for a wheel event of rot notches (rot # 0): the handler
\* raises TypeError while wheel_rotation is None, that is before the first tick
WxMouse(rot) ==
  /\ host = "wx"
  /\ pc \in {"start", "idle"}
  /\ wheel_rotation' = IF WheelRaises(wheel_rotation, <<rot>>)
                         THEN wheel_rotation
                         ELSE <<wheel_rotation[1] + rot>>
  /\ moved' = moved + rot
  /\ UNCHANGED <<hostVars, keys_down, keys_up, held, behVars, histVars>>
  /\ UNCHANGED <<trajVars, sceneVars, ioVars, inits, wheelSeen, wheelDue, objVars, drawVars>>

(* ---------------------------- pygame Window ---------------------------- *)
\* show() up to the main loop: the first frame is drawn
PygameShow ==
  /\ host = "pygame"
  /\ pc = "start"
  /\ pc' = "idle"
  /\ fbo' = Drawn
  /\ UNCHANGED <<host, behaviours, params, i, remove, frame, n_frames, closing,
                 paint_pending, rotatable>>
  /\ UNCHANGED <<inputVars, behVars, histVars>>
  /\ UNCHANGED <<trajVars, sceneVars, ioVars, inits, mouseHist, objVars, renders>>

\* a key event of pygame: [key, down]
KeyEvent(key, down) == [key |-> key, down |-> down]

\* the key events the keyboard can produce from the held keys h, at most n
RECURSIVE Batches(_, _)
Batches(h, n) ==
  {<<>>} \cup
  (IF n = 0 THEN {}
   ELSE UNION {{<<KeyEvent(k, k \notin h)>> \o rest :
                  rest \in Batches(IF k \in h THEN h \ {k} ELSE h \cup {k}, n - 1)} :
               k \in Keys})

\* the keys held after the events of a batch
RECURSIVE HeldAfter(_, _)
HeldAfter(h, batch) ==
  IF batch = <<>> THEN h
  ELSE HeldAfter(IF batch[1].down THEN h \cup {batch[1].key} ELSE h \ {batch[1].key},
                 Tail(batch))

\* the press-then-release cycles of the key set K that a batch completes
RECURSIVE CyclesIn(_, _, _)
CyclesIn(h, batch, K) ==
  IF batch = <<>> THEN 0
  ELSE (IF ~batch[1].down /\ K \subseteq h /\ batch[1].key \in K THEN 1 ELSE 0)
       + CyclesIn(HeldAfter(h, <<batch[1]>>), Tail(batch), K)

\* Window._handle_keyboard after keys_up.clear(): the loop over the events;
\* kb is [down, up]. keys_down.remove(key) finds the key: every key released
\* was pressed in this window
RECURSIVE HandleKeyboard(_, _)
HandleKeyboard(kb, events) ==
  IF events = <<>> THEN kb
  ELSE LET e == events[1]
       IN  HandleKeyboard(
             IF e.key = "" THEN kb
             ELSE IF e.down
               THEN [down |-> kb.down \cup {e.key}, up |-> kb.up]
               ELSE [down |-> kb.down \ {e.key}, up |-> kb.up \cup {e.key}],
             Tail(events))

\* Window._handle_mouse(wheel_event): wheels holds precise_y of the wheel
\* events of this iteration, of which show() keeps the last
HandleMouse(w, wheels) ==
  IF wheels # <<>>
    THEN <<w[1] + wheels[Len(wheels)]>>
    ELSE <<0>>

\* an iteration of the loop of show() whose _handle_mouse raises: the
\* exception leaves show()
PygameWheelRaise(wheels) ==
  /\ host = "pygame"
  /\ pc = "idle"
  /\ ~closing
  /\ WheelRaises(wheel_rotation, wheels)
  /\ pc' = "raised"
  /\ keys_up' = {}
  /\ moved' = SumOf(wheels)
  /\ UNCHANGED <<host, behaviours, params, i, remove, frame, n_frames, closing,
                 paint_pending, rotatable>>
  /\ UNCHANGED <<keys_down, wheel_rotation, held, behVars, histVars>>
  /\ UNCHANGED <<trajVars, sceneVars, ioVars, inits, wheelSeen, wheelDue, objVars, drawVars>>

\* one iteration of the loop of show() up to the loop of _behave: the events
\* (QUIT, key events, WINDOWRESIZED), _handle_keyboard, _handle_mouse, Params
PygameEvents(quit, resize, batch, wheels) ==
  /\ host = "pygame"
  /\ pc = "idle"
  /\ ~closing
  /\ ~WheelRaises(wheel_rotation, wheels)
  /\ closing' = quit
  /\ resized' = resize
  /\ LET kb == HandleKeyboard([down |-> keys_down, up |-> {}], batch)
     IN  keys_down' = kb.down /\ keys_up' = kb.up
  /\ wheel_rotation' = HandleMouse(wheel_rotation, wheels)
  /\ wheelSeen' = HandleMouse(wheel_rotation, wheels)
  /\ wheelDue' = SumOf(wheels)
  /\ moved' = 0
  /\ held' = HeldAfter(held, batch)
  /\ cycles' = cycles + CyclesIn(held, batch, keys)
  /\ BeginPass(quit)
  /\ UNCHANGED <<host, behaviours, frame, n_frames, paint_pending, rotatable>>
  /\ UNCHANGED <<behVars, ssHist>>
  /\ UNCHANGED <<removedEver, repaint, fired, expected, sawHeld, keyTicks>>
  /\ UNCHANGED <<trajVars, moveVars, gifVars, ioVars, inits, objVars, drawVars>>

\* faulty variant: only the behaviours decide the redraw
PygameRefreshBehave(resize, r) == r

\* `refresh = False`, `refresh = True` on WINDOWRESIZED, `refresh |= self._behave()`
PygameRefresh(resize, r) == resize \/ r

\* the rest of Window._behave and of the iteration: the marked behaviours
\* are popped, the list is cleared when closing, the frame is drawn if needed
PygameEndPass ==
  /\ host = "pygame"
  /\ pc = "after"
  /\ behaviours' = IF closing THEN <<>> ELSE RemoveMarked(behaviours, remove)
  /\ removedEver' = removedEver \cup Gone(behaviours, behaviours')
  /\ repaint' = PygameRefresh(resized, params.refresh)
  /\ fbo' = (IF PygameRefresh(resized, params.refresh) THEN Drawn ELSE fbo)
  /\ pc' = "idle"
  /\ UNCHANGED <<host, params, i, remove, frame, n_frames, closing, paint_pending,
                 rotatable>>
  /\ UNCHANGED <<inputVars, behVars, keyHist, ssHist>>
  /\ UNCHANGED <<passes, lastCallPasses, prePass, prevParams, log, resized>>
  /\ UNCHANGED <<trajVars, sceneVars, ioVars, inits, mouseHist, objVars, renders>>

\* `while not self._closing` fails: pygame.quit()
PygameQuit ==
  /\ host = "pygame"
  /\ pc = "idle"
  /\ closing
  /\ pc' = "end"
  /\ UNCHANGED <<host, behaviours, params, i, remove, frame, n_frames, closing,
                 paint_pending, rotatable>>
  /\ UNCHANGED <<inputVars, behVars, histVars>>
  /\ UNCHANGED extVars

(* -------------------------------- Init --------------------------------- *)
InitHist ==
  /\ passes = 0
  /\ lastCallPasses = 0
  /\ prePass = <<>>
  /\ prevParams = NoParams
  /\ log = <<>>
  /\ removedEver = {}
  /\ resized = FALSE
  /\ repaint = FALSE
  /\ fired = 0
  /\ cycles = 0
  /\ expected = 0
  /\ sawHeld = FALSE
  /\ dirty = 0
  /\ keyTicks = 0
  /\ wrapTicks = 0
  /\ innerTicks = 0

\* the state every host starts from: no Params yet (all flags false), the
\* window's Keyboard([], []) and Mouse(None, None, None, None)
InitCommon ==
  /\ params = NoParams
  /\ i = 1
  /\ remove = <<>>
  /\ frame = 0
  /\ closing = FALSE
  /\ paint_pending = FALSE
  /\ keys_down = {}
  /\ keys_up = {}
  /\ wheel_rotation = <<>>
  /\ held = {}
  /\ act = FALSE
  /\ cnt = 0

\* the constructor call of a trajectory: the function, for the builders how
\* the points were passed and the points meant, for Join the [w, tr] list, for
\* the decorators the decorated trajectory, for Circle the three vectors
Ctor(fn, style, pts, trajectories, vecs) ==
  [fn |-> fn, style |-> style, pts |-> pts, trajectories |-> trajectories, vecs |-> vecs]

NoCtor == Ctor("None", "", <<>>, <<>>, <<>>)

NoOut == [err |-> "None", v |-> NoValue, seg |-> -1, local |-> Zero]

\* no trajectory was built
InitTraj ==
  /\ traj = NoTraj
  /\ ctor = NoCtor
  /\ arg = <<>>
  /\ out = NoOut

\* no trajectory movement and no LightToCamera in the list
InitMove ==
  /\ mv_t = Zero
  /\ speed = One
  /\ camera_position = Scalar(Zero)
  /\ light = Scalar(Zero)
  /\ offset = Scalar(Zero)
  /\ moveTicks = 0
  /\ prevCamera = Scalar(Zero)

\* SaveGif.__init__: `self._i = 0`, `self._images = []`
InitGif ==
  /\ gif_i = 0
  /\ images = <<>>
  /\ every_n = 1
  /\ saves = <<>>
  /\ gifTicks = 0
  /\ lastSave = <<>>

\* no SaveFrames, SceneInit or object behaviour in the list, an empty scene,
\* nothing rendered yet
InitMore ==
  /\ sf_i = 0
  /\ frameCalls = <<>>
  /\ inits = 0
  /\ moved = 0
  /\ wheelSeen = <<>>
  /\ wheelDue = 0
  /\ objects = <<>>
  /\ interval = 0
  /\ ticks = 0
  /\ objIndex = 0
  /\ object = -1
  /\ renderables = {}
  /\ added = <<>>
  /\ switches = <<>>
  /\ objTicks = 0
  /\ renders = 0
  /\ fbo = <<>>

\* the dispatch protocol: any list of generic behaviours and LocalModelRotation,
\* under each of the three hosts
Init ==
  /\ host \in {"render", "wx", "pygame"}
  /\ pc = IF host = "render" THEN "idle" ELSE "start"
  /\ behaviours \in Lists
  /\ n_frames \in (IF host = "render" THEN 0..MaxFrames ELSE {0})
  /\ rotatable \in BOOLEAN
  /\ keys = {"S"}
  /\ start = 0
  /\ stop = 0
  /\ InitCommon
  /\ InitHist
  /\ InitTraj
  /\ InitMove
  /\ InitGif
  /\ InitMore

Next ==
  \/ RenderFrame
  \/ DispatchStep
  \/ RenderEndPass
  \/ RenderReturn
  \/ WxPaint
  \/ WxClose
  \/ (passes < MaxPasses /\ WxTick)
  \/ WxEndTick
  \/ PygameShow
  \/ (passes < MaxPasses /\ \E quit \in BOOLEAN, resize \in BOOLEAN :
                              PygameEvents(quit, resize, <<>>, <<>>))
  \/ PygameEndPass
  \/ PygameQuit

Spec == Init /\ [][Next]_vars

\* the keyboard: OnKeys alone or after a generic behaviour, under the window hosts
InitKeys ==
  /\ host \in {"wx", "pygame"}
  /\ pc = "start"
  /\ behaviours \in {<<OnKeys>>, <<Generic(1), OnKeys>>}
  /\ n_frames = 0
  /\ rotatable = FALSE
  /\ keys \in {{"S"}, {"S", "T"}}
  /\ start = 0
  /\ stop = 0
  /\ InitCommon
  /\ InitHist
  /\ InitTraj
  /\ InitMove
  /\ InitGif
  /\ InitMore

NextKeys ==
  \/ WxPaint
  \/ (dirty < MaxBatch /\ \E key \in Keys, down \in BOOLEAN : WxKeyboard(key, down))
  \/ (passes < MaxKeyPasses /\ WxTick)
  \/ DispatchStep
  \/ WxEndTick
  \/ PygameShow
  \/ (passes < MaxKeyPasses /\ \E batch \in Batches(held, MaxBatch) :
                                 PygameEvents(FALSE, FALSE, batch, <<>>))
  \/ PygameEndPass

SpecKeys == InitKeys /\ [][NextKeys]_vars

\* StartStopBehaviour around a generic behaviour, ticked by render()
InitStartStop ==
  /\ host = "render"
  /\ pc = "idle"
  /\ behaviours = <<StartStopBehaviour>>
  /\ n_frames \in 0..(MaxStop + 1)
  /\ rotatable = FALSE
  /\ keys = {"S"}
  /\ stop \in 0..MaxStop
  /\ start \in 0..stop
  /\ InitCommon
  /\ InitHist
  /\ InitTraj
  /\ InitMove
  /\ InitGif
  /\ InitMore

NextStartStop ==
  \/ RenderFrame
  \/ DispatchStep
  \/ RenderEndPass
  \/ RenderReturn

SpecStartStop == InitStartStop /\ [][NextStartStop]_vars

(* ----------------------- the trajectory library ------------------------ *)
\* largest absolute value of a progress handed to get_value
MaxProgress == 3

\* the numbers used as end points and control points
ScalarPoints == {Scalar(Rat(k, 1)) : k \in 0..2}

\* the 3-d and 2-d points handed to the builders
VectorPoints3 == {Vector(<<0, 1, 0>>), Vector(<<1, 0, 2>>)}
VectorPoints2 == {Vector(<<0, 1>>)}

\* the lists of at most MaxPts points of one shape
PointLists ==
  UNION {UNION {[1..k -> P] : k \in 0..MaxPts} :
           P \in {ScalarPoints, VectorPoints3, VectorPoints2}}

\* the segments handed to Join and the trajectories that are decorated; the
\* second does not start where the third ends
Segments ==
  {Linear(Scalar(Zero), Scalar(One)), Linear(Scalar(One), Scalar(Zero)),
   Linear(Scalar(Two), Scalar(Zero)),
   QuadraticBezier(Scalar(Zero), Scalar(Two), Scalar(One))}

Weights == {Rat(w, 1) : w \in 0..MaxWeight}

\* the segments handed to Join: the second does not start where the first ends
JoinSegments == {Linear(Scalar(Zero), Scalar(One)), Linear(Scalar(Two), Scalar(Zero))}

\* the lists of [w, tr] handed to Join
JoinLists == UNION {[1..k -> [w : Weights, tr : JoinSegments]] : k \in 1..MaxSegs}

\* the arguments of the builders for the points pts: as positional arguments,
\* or as one list
BuilderArgs(style, pts) ==
  IF style = "positional" THEN pts
  ELSE IF pts = <<>> THEN <<[shape |-> <<0>>, data |-> <<>>]>>
  ELSE <<Stack(pts)>>

\* a trajectory is built once
Unbuilt == traj = NoTraj /\ pc = "end"

Built(c, tr) ==
  /\ ctor' = c
  /\ traj' = tr
  /\ UNCHANGED <<arg, out>>
  /\ UNCHANGED <<hostVars, inputVars, behVars, histVars, sceneVars, moreVars>>

NewLinear ==
  /\ Unbuilt
  /\ \E a \in ScalarPoints, b \in ScalarPoints :
       Built(Ctor("Linear", "", <<a, b>>, <<>>, <<>>), Linear(a, b))

NewQuadraticBezier ==
  /\ Unbuilt
  /\ \E A \in ScalarPoints, B \in ScalarPoints, C \in ScalarPoints :
       Built(Ctor("QuadraticBezier", "", <<A, B, C>>, <<>>, <<>>), QuadraticBezier(A, B, C))

NewJoin ==
  /\ Unbuilt
  /\ \E l \in JoinLists :
       Built(Ctor("Join", "", <<>>, l, <<>>), Join(l))

NewRepeat ==
  /\ Unbuilt
  /\ \E tr \in Segments :
       Built(Ctor("Repeat", "", <<>>, <<[w |-> One, tr |-> tr]>>, <<>>), Repeat(tr))

NewBackAndForth ==
  /\ Unbuilt
  /\ \E tr \in Segments :
       Built(Ctor("BackAndForth", "", <<>>, <<[w |-> One, tr |-> tr]>>, <<>>),
         BackAndForth(tr))

LinesCall ==
  /\ Unbuilt
  /\ \E style \in {"positional", "iterable"}, pts \in PointLists :
       Built(Ctor("Lines", style, pts, <<>>, <<>>), Lines(BuilderArgs(style, pts)))

QuadraticBezierCurvesCall ==
  /\ Unbuilt
  /\ \E style \in {"positional", "iterable"}, pts \in PointLists :
       Built(Ctor("QuadraticBezierCurves", style, pts, <<>>, <<>>),
         QuadraticBezierCurves(BuilderArgs(style, pts)))

Coords == [1..3 -> (-MaxCoord)..MaxCoord]

NewCircle ==
  /\ Unbuilt
  /\ \E center \in {[k \in 1..3 |-> 0], [k \in 1..3 |-> 1]}, point \in Coords, normal \in Coords :
       Built(Ctor("Circle", "", <<>>, <<>>, <<center, point, normal>>),
         Circle(center, point, normal))

\* the progresses handed to get_value of tr: the periodic trajectories take
\* any number, the others are called on [0, 1] and a little outside it
Progresses(tr) ==
  IF tr.kind \in {"Repeat", "BackAndForth"} THEN Rats(-MaxProgress, MaxProgress)
  ELSE Rats(-1, 2)

\* traj.get_value(t) for one of the trajectories with a modelled get_value
GetValueCall(t) ==
  /\ pc = "end"
  /\ arg = <<>>
  /\ traj.kind \in {"Linear", "QuadraticBezier", "Join", "Repeat", "BackAndForth"}
  /\ arg' = <<t>>
  /\ out' = LET r == get_value(traj, t)
                d == IF r.err = "" THEN Delegate(traj, t) ELSE [seg |-> -1, local |-> Zero]
            IN  [err |-> r.err, v |-> r.v, seg |-> d.seg, local |-> d.local]
  /\ UNCHANGED <<traj, ctor>>
  /\ UNCHANGED <<hostVars, inputVars, behVars, histVars, sceneVars, moreVars>>

\* no host runs; a trajectory is built and evaluated
InitLibrary ==
  /\ host = "render"
  /\ pc = "end"
  /\ behaviours = <<>>
  /\ n_frames = 0
  /\ rotatable = FALSE
  /\ keys = {"S"}
  /\ start = 0
  /\ stop = 0
  /\ InitCommon
  /\ InitHist
  /\ InitTraj
  /\ InitMove
  /\ InitGif
  /\ InitMore

NextLibrary ==
  \/ NewLinear
  \/ NewQuadraticBezier
  \/ NewJoin
  \/ NewRepeat
  \/ NewBackAndForth
  \/ LinesCall
  \/ QuadraticBezierCurvesCall
  \/ NewCircle
  \/ \E t \in Progresses(traj) : GetValueCall(t)

SpecLibrary == InitLibrary /\ [][NextLibrary]_vars

(* ------------------------ trajectory movements ------------------------- *)
\* Linear(a, b) between two numbers
Line(a, b) == Linear(Scalar(Rat(a, 1)), Scalar(Rat(b, 1)))

\* the trajectories handed to CameraTrajectory: bare ones, defined on [0, 1]
\* only, and periodic ones
MoverTrajectories ==
  {Line(0, 4),
   Join(<<[w |-> One, tr |-> Line(0, 1)], [w |-> One, tr |-> Line(2, 0)]>>),
   QuadraticBezier(Scalar(Zero), Scalar(Two), Scalar(One)),
   Repeat(Line(0, 4)),
   BackAndForth(Line(0, 4)),
   BackAndForth(Line(0, 12))}

\* CameraTrajectory alone, before and after LightToCamera, ticked by render()
InitMovement ==
  /\ host = "render"
  /\ pc = "idle"
  /\ behaviours \in {<<CameraTrajectory>>, <<CameraTrajectory, LightToCamera>>,
                     <<LightToCamera, CameraTrajectory>>}
  /\ n_frames \in 0..MaxTicks
  /\ rotatable = FALSE
  /\ keys = {"S"}
  /\ start = 0
  /\ stop = 0
  /\ InitCommon
  /\ InitHist
  /\ traj \in MoverTrajectories
  /\ ctor = NoCtor
  /\ arg = <<>>
  /\ out = NoOut
  /\ mv_t = Zero
  /\ speed \in {Rat(1, d) : d \in 1..MaxDen}
  /\ camera_position \in {Scalar(Zero), Scalar(Rat(5, 1))}
  /\ light \in {Scalar(Zero), Scalar(Rat(5, 1))}
  /\ offset \in {Scalar(Zero), Scalar(Rat(3, 1))}
  /\ moveTicks = 0
  /\ prevCamera = camera_position
  /\ InitGif
  /\ InitMore

NextMovement ==
  \/ RenderFrame
  \/ DispatchStep
  \/ DispatchRaise
  \/ RenderEndPass
  \/ RenderReturn

SpecMovement == InitMovement /\ [][NextMovement]_vars

(* ------------------------------- SaveGif ------------------------------- *)
\* SaveGif alone or after a generic behaviour, under each of the three hosts
InitSaveGif ==
  /\ host \in {"render", "wx", "pygame"}
  /\ pc = IF host = "render" THEN "idle" ELSE "start"
  /\ behaviours \in {<<SaveGif>>, <<Generic(1), SaveGif>>}
  /\ n_frames \in (IF host = "render" THEN 0..MaxGifFrames ELSE {0})
  /\ rotatable = FALSE
  /\ keys = {"S"}
  /\ start = 0
  /\ stop = 0
  /\ InitCommon
  /\ InitHist
  /\ InitTraj
  /\ InitMove
  /\ gif_i = 0
  /\ images = <<>>
  /\ every_n \in 1..MaxEvery
  /\ saves = <<>>
  /\ gifTicks = 0
  /\ lastSave = <<>>
  /\ InitMore

NextSaveGif ==
  \/ RenderFrame
  \/ DispatchStep
  \/ RenderEndPass
  \/ RenderReturn
  \/ WxPaint
  \/ WxClose
  \/ (passes < MaxGifFrames /\ WxTick)
  \/ WxEndTick
  \/ PygameShow
  \/ (passes < MaxGifFrames /\ \E quit \in BOOLEAN : PygameEvents(quit, FALSE, <<>>, <<>>))
  \/ PygameEndPass
  \/ PygameQuit

SpecSaveGif == InitSaveGif /\ [][NextSaveGif]_vars

(* ------------------------ SceneInit and raising ------------------------ *)
\* the canonical lists over generic behaviours and b that hold b
ListsWith(b) ==
  {l \in ListsOver({Generic(n) : n \in 1..NumB} \cup {b}) :
     Canonical(l) /\ b \in Range(l)}

\* the state the three hosts start from, for the list l
InitHosts(l) ==
  /\ host \in {"render", "wx", "pygame"}
  /\ pc = IF host = "render" THEN "idle" ELSE "start"
  /\ behaviours = l
  /\ n_frames \in (IF host = "render" THEN 0..MaxFrames ELSE {0})
  /\ rotatable = FALSE
  /\ keys = {"S"}
  /\ start = 0
  /\ stop = 0
  /\ InitCommon
  /\ InitHist
  /\ InitTraj
  /\ InitMove
  /\ InitGif
  /\ InitMore

\* SceneInit anywhere in a list of generic behaviours, as simple_window and
\* show put it first
InitSceneInit == \E l \in ListsWith(SceneInit) : InitHosts(l)

SpecSceneInit == InitSceneInit /\ [][Next]_vars

\* a behaviour whose behave() raises, anywhere in a list of generic behaviours
InitRaise == \E l \in ListsWith(Behaviour) : InitHosts(l)

NextRaise ==
  \/ RenderFrame
  \/ DispatchStep
  \/ DispatchRaise
  \/ RenderEndPass
  \/ RenderReturn
  \/ WxPaint
  \/ WxClose
  \/ (passes < MaxPasses /\ WxTick)
  \/ WxEndTick
  \/ PygameShow
  \/ (passes < MaxPasses /\ \E quit \in BOOLEAN, resize \in BOOLEAN :
                              PygameEvents(quit, resize, <<>>, <<>>))
  \/ PygameEndPass
  \/ PygameQuit

SpecRaise == InitRaise /\ [][NextRaise]_vars

(* ------------------- objects added to the scene ------------------------ *)
\* the lists of renderables handed to AddObjectsSequentially
ObjectLists == {<<"a">>, <<"a", "b">>, <<"a", "b", "c">>}

\* the lists of pairwise disjoint groups handed to CycleThroughObjects
GroupLists ==
  {<< <<"a">> >>, << <<"a">>, <<"b">> >>, << <<"a", "b">>, <<"c">> >>,
   << <<"a">>, <<>>, <<"b">> >>, << <<"a">>, <<"b">>, <<"c">> >>}

\* one of the two behaviours, ticked by render(); the scene holds at most a
\* renderable that is none of the behaviour's
InitObjects ==
  /\ host = "render"
  /\ pc = "idle"
  /\ behaviours \in {<<AddObjectsSequentially>>, <<CycleThroughObjects>>}
  /\ n_frames \in 0..MaxObjTicks
  /\ rotatable = FALSE
  /\ keys = {"S"}
  /\ start = 0
  /\ stop = 0
  /\ InitCommon
  /\ InitHist
  /\ InitTraj
  /\ InitMove
  /\ InitGif
  /\ sf_i = 0
  /\ frameCalls = <<>>
  /\ inits = 0
  /\ moved = 0
  /\ wheelSeen = <<>>
  /\ wheelDue = 0
  /\ objects \in (IF behaviours[1] = AddObjectsSequentially THEN ObjectLists ELSE GroupLists)
  /\ interval \in 1..MaxInterval
  /\ ticks = interval
  /\ objIndex = (IF behaviours[1] = AddObjectsSequentially THEN Len(objects) ELSE 0)
  /\ object = -1
  /\ renderables \in {{}, {"x"}}
  /\ added = <<>>
  /\ switches = <<>>
  /\ objTicks = 0
  /\ renders = 0
  /\ fbo = <<>>

NextObjects ==
  \/ RenderFrame
  \/ DispatchStep
  \/ RenderEndPass
  \/ RenderReturn

SpecObjects == InitObjects /\ [][NextObjects]_vars

(* ------------------------------ the wheel ------------------------------ *)
\* the wheel movements of one event, in notches
Notches == {-1, 1}

\* the MOUSEWHEEL events one pygame.event.get() can return
WheelBatches == UNION {[1..k -> Notches] : k \in 0..MaxWheel}

\* a window with one behaviour, the wheel being turned
InitMouse ==
  /\ host \in {"wx", "pygame"}
  /\ pc = "start"
  /\ behaviours = <<LocalModelRotation>>
  /\ n_frames = 0
  /\ rotatable = FALSE
  /\ keys = {"S"}
  /\ start = 0
  /\ stop = 0
  /\ InitCommon
  /\ InitHist
  /\ InitTraj
  /\ InitMove
  /\ InitGif
  /\ InitMore

NextMouse ==
  \/ WxPaint
  \/ \E rot \in Notches : (Abs(moved + rot) <= MaxWheel /\ WxMouse(rot))
  \/ (passes < MaxMousePasses /\ WxTick)
  \/ DispatchStep
  \/ WxEndTick
  \/ PygameShow
  \/ (passes < MaxMousePasses /\ \E wheels \in WheelBatches :
                                   PygameEvents(FALSE, FALSE, <<>>, wheels))
  \/ \E wheels \in WheelBatches : PygameWheelRaise(wheels)
  \/ PygameEndPass

SpecMouse == InitMouse /\ [][NextMouse]_vars

(* -------------------------- the frame accessor ------------------------- *)
\* the batches of key events that press and release "S" only
SnapshotBatches(h) ==
  {batch \in Batches(h, MaxBatch) : \A k \in DOMAIN batch : batch[k].key = "S"}

\* the three behaviours that read the frame, in a window whose "S" key is
\* pressed and released and which is closed at some tick
InitFrames ==
  /\ host \in {"wx", "pygame"}
  /\ pc = "start"
  /\ behaviours = <<SaveFrames, SnapshotOnKey, SaveGif>>
  /\ n_frames = 0
  /\ rotatable = FALSE
  /\ keys = {"S"}
  /\ start = 0
  /\ stop = 0
  /\ InitCommon
  /\ InitHist
  /\ InitTraj
  /\ InitMove
  /\ gif_i = 0
  /\ images = <<>>
  /\ every_n \in 1..MaxEvery
  /\ saves = <<>>
  /\ gifTicks = 0
  /\ lastSave = <<>>
  /\ InitMore

NextFrames ==
  \/ WxPaint
  \/ WxClose
  \/ (dirty < MaxBatch /\ \E down \in BOOLEAN : WxKeyboard("S", down))
  \/ (passes < MaxFramePasses /\ WxTick)
  \/ DispatchStep
  \/ WxEndTick
  \/ PygameShow
  \/ (passes < MaxFramePasses /\ \E quit \in BOOLEAN, batch \in SnapshotBatches(held) :
                                   PygameEvents(quit, FALSE, batch, <<>>))
  \/ PygameEndPass
  \/ PygameQuit

SpecFrames == InitFrames /\ [][NextFrames]_vars

(* --------------------- render() with a moving camera ------------------- *)
\* the camera_position argument of render()
StartCamera == Scalar(Rat(5, 1))

\* the renderables argument of render(), added to the scene before the loop
StartRenderables == {"x"}

\* a camera that moves on every tick and a behaviour that reads the frame, in
\* both orders, ticked by render()
InitRender ==
  /\ host = "render"
  /\ pc = "idle"
  /\ behaviours \in {<<CameraTrajectory, SaveFrames>>, <<SaveFrames, CameraTrajectory>>,
                     <<CameraTrajectory, SaveGif>>, <<SaveGif, CameraTrajectory>>}
  /\ n_frames \in 0..MaxTicks
  /\ rotatable = FALSE
  /\ keys = {"S"}
  /\ start = 0
  /\ stop = 0
  /\ InitCommon
  /\ InitHist
  /\ traj = Repeat(Line(0, 4))
  /\ ctor = NoCtor
  /\ arg = <<>>
  /\ out = NoOut
  /\ mv_t = Zero
  /\ speed \in {Rat(1, d) : d \in 2..MaxDen}
  /\ camera_position = StartCamera
  /\ light = StartCamera
  /\ offset = Scalar(Zero)
  /\ moveTicks = 0
  /\ prevCamera = camera_position
  /\ gif_i = 0
  /\ images = <<>>
  /\ every_n \in 1..MaxEvery
  /\ saves = <<>>
  /\ gifTicks = 0
  /\ lastSave = <<>>
  /\ sf_i = 0
  /\ frameCalls = <<>>
  /\ inits = 0
  /\ moved = 0
  /\ wheelSeen = <<>>
  /\ wheelDue = 0
  /\ objects = <<>>
  /\ interval = 0
  /\ ticks = 0
  /\ objIndex = 0
  /\ object = -1
  /\ renderables = StartRenderables
  /\ added = <<>>
  /\ switches = <<>>
  /\ objTicks = 0
  /\ renders = 0
  /\ fbo = <<>>

NextRender ==
  \/ RenderFrame
  \/ DispatchStep
  \/ RenderEndPass
  \/ RenderReturn

SpecRender == InitRender /\ [][NextRender]_vars

(* ------------------------------ properties ----------------------------- *)
\* the last pass, with what the host does after its loop, is over
PassOver == passes > 0 /\ pc \in {"idle", "end"}

InPass == pc \in {"pass", "after"}

\* the behaviours whose own behave() set params.done in this pass
DoneSetters == {log[k].b : k \in {j \in DOMAIN log : log[j].done}}

NotDoneSetter(b) == b \notin DoneSetters

Min(a, b) == IF a < b THEN a ELSE b

Max(a, b) == IF a > b THEN a ELSE b

\* C1: in a pass the behaviours are ticked in list order, and no behaviour is
\* ticked after one whose behave() left stop_propagation set.
C1_OrderAndStop ==
  passes > 0 =>
    /\ Len(log) <= Len(prePass)
    /\ \A k \in 1..Len(log) : log[k].b = prePass[k]
    /\ \A k \in 1..(Len(log) - 1) : ~log[k].stop

\* three behaviours, the second stopped the pass, the third was not ticked
C1_Witness ==
  /\ PassOver
  /\ Len(prePass) = 3
  /\ Len(log) = 2
  /\ log[2].stop

\* C2: after a pass with last_call false the list is the list of before the
\* pass without the behaviours whose own behave() set done, in the same order;
\* and a behaviour removed by an earlier pass is not ticked again.
C2_Removal ==
  /\ (PassOver /\ ~params.last_call) => behaviours = SelectSeq(prePass, NotDoneSetter)
  /\ InPass => \A k \in DOMAIN log : log[k].b \notin removedEver

\* the first and the third of three set done and are gone, the second stays
C2_Witness ==
  /\ PassOver
  /\ ~params.last_call
  /\ Len(prePass) = 3
  /\ Len(log) = 3
  /\ log[1].done /\ ~log[2].done /\ log[3].done
  /\ behaviours = <<prePass[2]>>

\* C3: within a pass params.refresh is true exactly when a behaviour ticked so
\* far assigned True to it; an assignment of False never clears it.
C3_RefreshSticky ==
  passes > 0 => (params.refresh <=> \E k \in DOMAIN log : log[k].refresh = "true")

\* LocalModelRotation assigned False after another behaviour assigned True
C3_Witness ==
  /\ InPass
  /\ Len(log) >= 2
  /\ log[1].refresh = "true"
  /\ log[2].b = LocalModelRotation
  /\ log[2].refresh = "false"
  /\ params.refresh

\* C4: after the pass made with last_call true the host's list is empty,
\* under every host.
C4_ListEmptyAfterLastCall ==
  (PassOver /\ params.last_call) => behaviours = <<>>

\* C5: when a run is over (render() returned, the window is gone) exactly one
\* pass was made with last_call true, and it was the last pass of the run.
C5_OneLastCall ==
  (pc = "end" /\ (host = "render" => n_frames >= 1)) =>
    (lastCallPasses = 1 /\ params.last_call)

\* C6 as claimed: a window host repaints after a tick if and only if
\* params.refresh ended the pass true.
C6_RepaintIffRefresh ==
  (PassOver /\ host \in {"wx", "pygame"}) => (repaint <=> params.refresh)

\* C6 as amended: a window host repaints after a tick if and only if
\* params.refresh ended the pass true or, under pygame, the iteration
\* handled a WINDOWRESIZED event.
C6_RepaintIffRefreshOrResize ==
  (PassOver /\ host \in {"wx", "pygame"}) =>
    (repaint <=> (params.refresh \/ (host = "pygame" /\ resized)))

\* pygame redrew after a resize although no behaviour asked for it
C6_Witness ==
  /\ PassOver
  /\ host = "pygame"
  /\ resized
  /\ ~params.refresh
  /\ Len(log) >= 1
  /\ repaint

\* C7: every pass starts with stop_propagation, done and refresh false, and a
\* pass that no behaviour stops ticks every behaviour of the list.
C7_FreshFlags ==
  /\ (InPass /\ log = <<>>) => (~params.stop /\ ~params.done /\ ~params.refresh)
  /\ InPass => prePass = behaviours
  /\ (pc = "after" /\ \A k \in DOMAIN log : ~log[k].stop) => Len(log) = Len(prePass)

\* the previous pass ended stopped and with refresh set; this one ticked all
C7_Witness ==
  /\ passes >= 2
  /\ prevParams.stop
  /\ prevParams.refresh
  /\ pc = "after"
  /\ Len(log) >= 2
  /\ Len(log) = Len(prePass)
  /\ ~params.refresh

\* C8 as claimed: once a tick of OnKeys has followed the last key event and
\* the keys are not all held, action() has run once for every completed
\* press-then-release cycle (OnKeys was ticked in every pass).
C8_OncePerCycle ==
  (pc = "idle" /\ passes > 0 /\ keyTicks = passes /\ dirty = 0 /\ ~(keys \subseteq held))
    => fired = cycles

\* C8 as amended: action() runs exactly on the ticks of OnKeys that find not
\* all keys of K held while the previous tick of OnKeys found them all held,
\* and never on a tick during which all keys of K are held; the snapshot a
\* tick sees has exactly the held keys down.
C8_FiresOnSampledRelease ==
  /\ fired = expected
  /\ InPass => keys_down = held
  /\ InPass => \A k \in DOMAIN log : log[k].fire => ~(keys \subseteq held)

\* one cycle was seen by a tick and fired, another fell between two ticks
C8_Witness ==
  /\ pc = "idle"
  /\ keyTicks = passes
  /\ dirty = 0
  /\ fired = 1
  /\ cycles = 2

\* C9: action() runs only on a tick whose released-keys set holds a key of K.
C9_FiresOnlyOnRelease ==
  InPass => \A k \in DOMAIN log : log[k].fire => (keys_up \cap keys) # {}

\* C10: after any number of ticks of StartStopBehaviour the wrapped behaviour
\* has been ticked once for every tick number (counted from 0) in [start, stop),
\* so stop - start times once the wrapper has received stop ticks.
C10_Window ==
  /\ innerTicks = Max(0, Min(wrapTicks, stop) - start)
  /\ wrapTicks >= stop => innerTicks = stop - start

\* the wrapper was ticked before start, inside the window and after stop
C10_Witness ==
  /\ start > 0
  /\ stop > start + 1
  /\ wrapTicks > stop
  /\ innerTicks = stop - start

(* ----------------- properties of the trajectory library ---------------- *)
\* get_value was called
Evaluated == arg # <<>>

\* the least element of a non-empty set of integers
SetMin(S) == CHOOSE x \in S : \A y \in S : x <= y

\* W[k-1], the sum of the first k weights of the list handed to Join; W[-1] = 0
RECURSIVE WeightSum(_, _)
WeightSum(l, k) == IF k = 0 THEN Zero ELSE RAdd(l[k].w, WeightSum(l, k - 1))

\* the local progress (w - W[i-1]) / (W[i] - W[i-1])
LocalProgress(l, w, idx) ==
  IF WeightSum(l, idx + 1) = WeightSum(l, idx) THEN NoValue
  ELSE RDiv(RSub(w, WeightSum(l, idx)), RSub(WeightSum(l, idx + 1), WeightSum(l, idx)))

\* Join(...).get_value(t) was called with t in [0, 1], the weights of the
\* Join not all zero
JoinEvaluated ==
  /\ ctor.fn = "Join"
  /\ Evaluated
  /\ RLe(Zero, arg[1])
  /\ RLe(arg[1], One)
  /\ RLt(Zero, WeightSum(ctor.trajectories, Len(ctor.trajectories)))

\* C14 as claimed: for t in [0,1] Join.get_value(t) hands over to the segment
\* with the smallest index i such that W[i] >= w, w = t * W[n-1], at the local
\* progress (w - W[i-1]) / (W[i] - W[i-1]).
C14_DelegatesToFirstNotBelow ==
  JoinEvaluated =>
    LET l == ctor.trajectories
        w == RMul(arg[1], WeightSum(l, Len(l)))
        idx == SetMin({k \in 0..(Len(l) - 1) : RLe(w, WeightSum(l, k + 1))})
    IN  /\ out.seg = idx
        /\ out.local = LocalProgress(l, w, idx)

\* C14 as amended: for t in [0,1] Join.get_value(t) hands over to the segment
\* with the smallest index i such that W[i] > w, at the local progress
\* (w - W[i-1]) / (W[i] - W[i-1]), which lies in [0, 1); when no W[i] is
\* greater than w (t = 1) it hands over to the last segment at progress 1.
C14_DelegatesToFirstAbove ==
  JoinEvaluated =>
    LET l == ctor.trajectories
        w == RMul(arg[1], WeightSum(l, Len(l)))
        above == {k \in 0..(Len(l) - 1) : RLt(w, WeightSum(l, k + 1))}
    IN  /\ out.err = ""
        /\ IF above = {}
             THEN arg[1] = One /\ out.seg = Len(l) - 1 /\ out.local = One
             ELSE /\ out.seg = SetMin(above)
                  /\ out.local = LocalProgress(l, w, SetMin(above))
                  /\ RLe(Zero, out.local) /\ RLt(out.local, One)
        /\ out.v = get_value(l[out.seg + 1].tr, out.local).v

\* w is exactly the first cumulative weight of two: the second segment is
\* evaluated at its start
C14_Witness ==
  /\ JoinEvaluated
  /\ Len(ctor.trajectories) = 2
  /\ RMul(arg[1], WeightSum(ctor.trajectories, 2)) = WeightSum(ctor.trajectories, 1)
  /\ out.seg = 1
  /\ out.local = Zero
  /\ out.v = ctor.trajectories[2].tr.a

\* Lines(p0..pn).get_value(t) was called, n + 1 >= 2
LinesEvaluated ==
  /\ ctor.fn = "Lines"
  /\ Len(ctor.pts) >= 2
  /\ Evaluated

\* C15: Lines(p0..pn).get_value(k/n) is pk for every k in 0..n, and between
\* two boundaries the value is the linear interpolation of the neighbours.
C15_LinesThroughPoints ==
  LinesEvaluated =>
    LET pts == ctor.pts
        n == Len(pts) - 1
        t == arg[1]
    IN  \A k \in 0..n :
          /\ t = Rat(k, n) => (out.err = "" /\ out.v = pts[k + 1])
          /\ (k < n /\ RLe(Rat(k, n), t) /\ RLe(t, Rat(k + 1, n))) =>
               out.v = VAdd(pts[k + 1],
                            VScale(RSub(RMul(t, Rat(n, 1)), Rat(k, 1)),
                                   VSub(pts[k + 2], pts[k + 1])))

\* four points, t = 2/3: the value is the third point
C15_Witness ==
  /\ LinesEvaluated
  /\ Len(ctor.pts) = 4
  /\ arg[1] = Rat(2, 3)
  /\ ctor.pts[3] # ctor.pts[2]
  /\ ctor.pts[3] # ctor.pts[4]
  /\ out.v = ctor.pts[3]

\* get_value was called on a Linear, a QuadraticBezier or a Join (built
\* directly or by Lines or QuadraticBezierCurves)
NonPeriodicEvaluated ==
  /\ ctor.fn \in {"Linear", "QuadraticBezier", "Join", "Lines", "QuadraticBezierCurves"}
  /\ Evaluated

\* C16: Linear, Join and QuadraticBezier raise for every t < 0 and every
\* t > 1, and return a value for every t in [0,1].
C16_RaisesOutsideUnitInterval ==
  NonPeriodicEvaluated =>
    (out.err # "" <=> (arg[1].n < 0 \/ arg[1].n > arg[1].d))

\* a Join raised for a progress above 1, and one below 0
C16_Witness ==
  /\ NonPeriodicEvaluated
  /\ ctor.fn = "Join"
  /\ arg[1].n > arg[1].d
  /\ out.err = "ValueError"

NotPerpendicular(center, point, normal) ==
  LET radial == [k \in 1..3 |-> point[k] - center[k]]
  IN  10000 * Dot(normal, radial) * Dot(normal, radial) >
        Dot(normal, normal) * Dot(radial, radial)

\* C18: Circle(center, point, normal) raises exactly when point - center is
\* not perpendicular to normal within the tolerance, for an acute as for an
\* obtuse angle.
C18_CircleRaises ==
  ctor.fn = "Circle" =>
    (traj.kind \in Errors <=> NotPerpendicular(ctor.vecs[1], ctor.vecs[2], ctor.vecs[3]))

\* BackAndForth(...).get_value(t) was called
BackAndForthEvaluated == ctor.fn = "BackAndForth" /\ Evaluated

\* t mod 2: the number of [0, 2) that differs from t by an even integer
Mod2(t) ==
  CHOOSE x \in {RSub(t, Rat(2 * k, 1)) : k \in (-MaxProgress)..MaxProgress} :
    RLe(Zero, x) /\ RLt(x, Two)

\* C19: BackAndForth evaluates the inner trajectory at tt if tt <= 1 and at
\* 2 - tt otherwise, tt = t mod 2; that progress lies in [0,1], the value has
\* period 2 and get_value(t) = get_value(2 - t).
C19_PingPong ==
  BackAndForthEvaluated =>
    LET t == arg[1]
        tt == Mod2(t)
        a == IF RLe(tt, One) THEN tt ELSE RSub(Two, tt)
    IN  /\ out.err = ""
        /\ out.local = a
        /\ RLe(Zero, a) /\ RLe(a, One)
        /\ out.v = get_value(ctor.trajectories[1].tr, a).v
        /\ out.v = get_value(traj, RAdd(t, Two)).v
        /\ out.v = get_value(traj, RSub(Two, t)).v

\* a negative progress on the way back: -3/4 is evaluated at 3/4
C19_Witness ==
  /\ BackAndForthEvaluated
  /\ arg[1] = Rat(-3, 4)
  /\ out.local = Rat(3, 4)
  /\ out.v # get_value(ctor.trajectories[1].tr, Rat(1, 4)).v

(* ------------- properties of the trajectory movements ------------------ *)
\* the behaviour ticked last in the current pass
LastTicked == log[Len(log)].b

\* C11: the n-th tick (from 0) of a trajectory movement writes
\* get_value(n * speed) into its property, advances the progress by speed and
\* sets refresh; the first tick samples progress 0.
C11_SamplesThenAdvances ==
  /\ mv_t = RMul(Rat(moveTicks, 1), speed)
  /\ moveTicks > 0 =>
       camera_position = get_value(traj, RMul(Rat(moveTicks - 1, 1), speed)).v
  /\ \A k \in DOMAIN log :
       log[k].b = CameraTrajectory => log[k].refresh = "true"
  /\ (InPass /\ \E k \in DOMAIN log : log[k].b = CameraTrajectory) => params.refresh

\* the third tick of a movement at speed 1/4 along Linear(0, 4) wrote 2
C11_Witness ==
  /\ InPass
  /\ log # <<>>
  /\ LastTicked = CameraTrajectory
  /\ traj = Line(0, 4)
  /\ speed = Rat(1, 4)
  /\ moveTicks = 3
  /\ camera_position = Scalar(Two)
  /\ mv_t = Rat(3, 4)

Bare == traj.kind \in {"Linear", "Join", "QuadraticBezier"}

\* C12 as claimed: behave() of a trajectory movement never raises, whatever
\* trajectory it is given and however many ticks it receives.
C12_NeverRaises == pc # "raised"

\* C12 as amended: a trajectory movement never sets done or stop_propagation;
\* with a periodic trajectory behave() never raises; with a bare Linear, Join
\* or QuadraticBezier it returns on the ticks n (from 0) with n * speed <= 1
\* and raises on the first tick with n * speed > 1, the progress unchanged.
C12_RaisesPastTheEnd ==
  /\ \A k \in DOMAIN log : log[k].b = CameraTrajectory => (~log[k].done /\ ~log[k].stop)
  /\ pc = "raised" =>
       /\ Bare
       /\ RLt(One, mv_t)
       /\ mv_t = RMul(Rat(moveTicks, 1), speed)
  /\ (Bare /\ moveTicks > 0) => RLe(RMul(Rat(moveTicks - 1, 1), speed), One)
  /\ (Bare /\ pc \in {"idle", "end"} /\ passes > 0 /\ moveTicks = passes) => ~RLt(One, RMul(Rat(moveTicks - 1, 1), speed))

\* a movement along a bare Linear at speed 1/4 raised on its sixth tick, and
\* not before
C12_Witness ==
  /\ pc = "raised"
  /\ traj = Line(0, 4)
  /\ speed = Rat(1, 4)
  /\ moveTicks = 5
  /\ passes = 6
  /\ mv_t = Rat(5, 4)

\* a pass in which both behaviours were ticked is over
BothTicked == PassOver /\ Len(prePass) = 2 /\ Len(log) = 2

\* the camera position the light follows: the one written in this pass when
\* the movement comes first, the one of the previous pass otherwise
Followed == IF prePass[1] = CameraTrajectory THEN camera_position ELSE prevCamera

\* |a - b| <= 1e-8 + 1e-5 * |b|, coordinates counted in units of 1e-8
Near(a, b) ==
  \A k \in DOMAIN a.data :
    LET diff == RAbs(RSub(a.data[k], b.data[k]))
    IN  100000 * diff.n * b.data[k].d <= diff.d * (100000 * b.data[k].d + Abs(b.data[k].n))

\* C13 as claimed: at the end of a pass scene.light equals the camera position
\* of that pass plus offset when the movement precedes LightToCamera, and the
\* camera position of the previous pass plus offset when it follows.
C13_LightFollowsExactly ==
  BothTicked => light = VAdd(Followed, offset)

\* C13 as amended: at the end of a pass scene.light is within the tolerance
\* of np.allclose of that position plus offset, and equal to it whenever
\* LightToCamera moved the light in that pass.
C13_LightFollowsWithinTolerance ==
  BothTicked =>
    /\ Near(VAdd(Followed, offset), light)
    /\ \A k \in DOMAIN log :
         (log[k].b = LightToCamera /\ log[k].refresh = "true") =>
           light = VAdd(Followed, offset)

\* LightToCamera comes first: the light is one pass behind the camera
C13_Witness ==
  /\ BothTicked
  /\ passes >= 2
  /\ prePass[1] = LightToCamera
  /\ light = VAdd(prevCamera, offset)
  /\ ~Near(VAdd(camera_position, offset), light)

(* ------------------------ properties of SaveGif ------------------------ *)
\* the ticks 1..n whose frame the file holds: the multiples of e and n itself
CapturedTicks(n, e) ==
  LET Kept(k) == k % e = 0 \/ k = n
  IN  SelectSeq([k \in 1..n |-> k], Kept)

C30_DestroyedAfterLastCall ==
  (host = "wx" /\ pc = "end") => (lastCallPasses >= 1 /\ params.last_call)

(* ------------------- properties of Join's zero weights ------------------ *)
\* the weight of the segment (index from 0) the call handed over to
ChosenWeight == ctor.trajectories[out.seg + 1].w

\* C29: for a Join whose weights are non-negative with a positive total and
\* for every t in [0,1], get_value never divides by zero and hands its segment
\* a progress in [0,1], so no segment raises a domain error; a segment of
\* weight zero is handed over to only as the last segment, at t = 1.
C29_ZeroWeightsAreSkipped ==
  JoinEvaluated =>
    /\ out.err = ""
    /\ RLe(Zero, out.local) /\ RLe(out.local, One)
    /\ ChosenWeight = Zero =>
         /\ out.seg = Len(ctor.trajectories) - 1
         /\ arg[1] = One
         /\ out.local = One

\* a Join of weights 0 and 1 evaluated at 0 skipped its first segment
C29_Witness ==
  /\ JoinEvaluated
  /\ Len(ctor.trajectories) = 2
  /\ ctor.trajectories[1].w = Zero
  /\ arg[1] = Zero
  /\ out.err = ""
  /\ out.seg = 1
  /\ out.local = Zero

(* ----------------- properties of SceneInit and of raising --------------- *)
\* the behaviours ticked so far in the current (or last) pass
Ticked == {log[k].b : k \in DOMAIN log}

\* C22: SceneInit calls its init function exactly once: on its first tick it
\* sets done, stop_propagation and refresh, so no behaviour after it is ticked
\* on that tick, a repaint is requested, and it is in the list on no later pass.
C22_InitOnce ==
  /\ inits <= 1
  /\ SceneInit \in Ticked => inits = 1
  /\ SceneInit \in removedEver => inits = 1 \/ params.last_call
  /\ \A k \in DOMAIN log :
       log[k].b = SceneInit =>
         /\ log[k].done /\ log[k].stop /\ log[k].refresh = "true"
         /\ k = Len(log)
         /\ pc # "pass"
         /\ params.refresh
         /\ (PassOver /\ host \in {"wx", "pygame"}) => repaint
  /\ (inits = 1 /\ pc \in {"idle", "end"}) => SceneInit \notin Range(behaviours)
  /\ (InPass /\ SceneInit \notin Ticked /\ inits = 1) => SceneInit \notin Range(prePass)

\* a later pass ticks the behaviours that stood behind SceneInit
C22_Witness ==
  /\ inits = 1
  /\ passes >= 2
  /\ InPass
  /\ log # <<>>
  /\ SceneInit \notin Ticked
  /\ SceneInit \in removedEver
  /\ Len(prePass) = 2

\* C27: when behave() raises during a pass the exception leaves the pass, no
\* later behaviour is ticked and the list is as it was before the pass: the
\* behaviours that set done earlier in the pass are not removed and the list
\* is not cleared even when last_call is true.
C27_RaiseLeavesTheList ==
  pc = "raised" =>
    /\ behaviours = prePass
    /\ Behaviour \in Range(behaviours)
    /\ Len(log) = i - 1
    /\ behaviours[i] = Behaviour
    /\ \A k \in DOMAIN log : log[k].b = behaviours[k] /\ ~log[k].stop

\* the pass of a closing wx window was left by the exception after a
\* behaviour had set done
C27_Witness ==
  /\ pc = "raised"
  /\ host = "wx"
  /\ params.last_call
  /\ Len(behaviours) = 3
  /\ i = 3
  /\ log[1].done
  /\ behaviours = prePass

(* ------------- properties of stop_propagation on the last pass ---------- *)
\* the last_call pass was cut short by stop_propagation
LastPassTruncated ==
  /\ params.last_call
  /\ pc \in {"after", "idle", "end"}
  /\ log # <<>>
  /\ log[Len(log)].stop
  /\ Len(log) < Len(prePass)

\* the behaviours of the list that stood behind the one that stopped the pass
Skipped == {prePass[k] : k \in (Len(log) + 1)..Len(prePass)}

\* C28: on the last_call pass stop_propagation still cuts the pass short: a
\* behaviour behind the one that set it is never ticked with last_call true
\* (a SaveGif there never writes its file) and is nevertheless discarded when
\* the window host clears the list.
C28_LastCallTruncated ==
  /\ \A k \in DOMAIN log : log[k].stop => (k = Len(log) /\ pc # "pass")
  /\ LastPassTruncated =>
       /\ \A k \in DOMAIN log : log[k].b = prePass[k]
       /\ SaveGif \in Skipped =>
            /\ saves = <<>>
            /\ \A k \in DOMAIN frameCalls :
                 frameCalls[k].by = "SaveGif" => ~frameCalls[k].last_call
       /\ (host \in {"wx", "pygame"} /\ pc \in {"idle", "end"}) => behaviours = <<>>

\* a pygame window was closed after two ticks: a SaveGif holding a frame
\* stood behind the behaviour that stopped the last pass, and wrote nothing
C28_Witness ==
  /\ host = "pygame"
  /\ pc = "end"
  /\ LastPassTruncated
  /\ prePass = <<Generic(1), SaveGif>>
  /\ gifTicks >= 1
  /\ images # <<>>
  /\ saves = <<>>
  /\ behaviours = <<>>

(* --------------- properties of the objects added to the scene ----------- *)
\* C24: AddObjectsSequentially(objects, interval) adds the objects one at a
\* time in list order, the first on its first tick, and two consecutive
\* additions are exactly `interval` ticks apart.
C24_AddsEveryInterval ==
  behaviours = <<AddObjectsSequentially>> =>
    \A k \in DOMAIN added :
      /\ added[k].o = objects[((k - 1) % Len(objects)) + 1]
      /\ k = 1 => added[k].tick = 1
      /\ k > 1 => added[k].tick - added[k - 1].tick = interval

\* every object of the groups of CycleThroughObjects
GroupObjects == UNION {Range(objects[g]) : g \in DOMAIN objects}

\* C25: after every tick of CycleThroughObjects with pairwise disjoint groups
\* exactly the objects of the group at the current index are in the scene and
\* none of the other groups'; the index advances by one modulo len(groups) at
\* each switch, starting with group 0 on the first tick.
C25_OneGroupInScene ==
  (behaviours = <<CycleThroughObjects>> /\ objTicks >= 1) =>
    /\ switches # <<>>
    /\ switches[1].tick = 1
    /\ \A k \in DOMAIN switches : switches[k].object = (k - 1) % Len(objects)
    /\ object = switches[Len(switches)].object
    /\ renderables \cap GroupObjects = Range(objects[object + 1])
    /\ \A g \in DOMAIN objects :
         g # object + 1 => Range(objects[g]) \cap renderables = {}

\* the third switch of two groups is back at group 0, whose object is shown
C25_Witness ==
  /\ behaviours = <<CycleThroughObjects>>
  /\ objects = << <<"a">>, <<"b">> >>
  /\ Len(switches) = 3
  /\ object = 0
  /\ "a" \in renderables
  /\ "b" \notin renderables
  /\ pc = "idle"

(* ------------------------ properties of the wheel ----------------------- *)
\* C23: in both window hosts the wheel_rotation the behaviours see on a tick
\* is the sum of the wheel movements received since the previous tick's pass:
\* every movement is counted in exactly one pass, and a tick with no movement
\* since the previous tick sees 0.
C23_WheelSinceLastTick ==
  (InPass /\ passes >= 2) => wheelSeen = <<wheelDue>>

(* -------------------- properties of the frame accessor ------------------ *)
\* the calls of params.frame() made by the behaviours of kind `kind`
CallsBy(kind) == {k \in DOMAIN frameCalls : frameCalls[k].by = kind}

\* C21: the dispatcher never calls params.frame itself; in a pass it is called
\* only from behave() of a behaviour that captures on that tick: SaveFrames
\* only on ticks whose 1-based count is a multiple of every_n, SaveGif only on
\* such ticks or on last_call, SnapshotOnKey only on a tick on which its
\* action fires.
C21_FrameOnlyOnCapture ==
  /\ \A k \in DOMAIN frameCalls :
       LET c == frameCalls[k]
       IN  /\ c.by \in {"SaveFrames", "SaveGif", "SnapshotOnKey"}
           /\ c.by = "SaveFrames" => c.n % every_n = 0
           /\ c.by = "SaveGif" => (c.n % every_n = 0 \/ c.last_call)
           /\ c.pass <= passes
           /\ \A j \in DOMAIN frameCalls :
                (frameCalls[j].by = c.by /\ frameCalls[j].pass = c.pass) => j = k
           /\ c.pass = passes => \E j \in DOMAIN log : log[j].b.kind = c.by
           /\ (c.pass = passes /\ c.by = "SnapshotOnKey") =>
                \E j \in DOMAIN log : log[j].b = SnapshotOnKey /\ log[j].fire
  /\ Cardinality(CallsBy("SnapshotOnKey")) = fired

\* with every_n = 2 each of the three behaviours has read the frame: SaveFrames
\* on its second tick, SnapshotOnKey after a release, SaveGif on the last pass
C21_Witness ==
  /\ every_n = 2
  /\ \E k \in CallsBy("SaveFrames") : frameCalls[k].n = 2
  /\ \E k \in CallsBy("SnapshotOnKey") : frameCalls[k].pass >= 2
  /\ \E k \in CallsBy("SaveGif") : frameCalls[k].last_call /\ frameCalls[k].n = 3
  /\ \A k \in CallsBy("SaveFrames") : frameCalls[k].n # 1 /\ frameCalls[k].n # 3

(* ------------------------- properties of render() ---------------------- *)
\* where the k-th tick of CameraTrajectory puts the camera
CameraAfter(k) == get_value(traj, RMul(Rat(k - 1, 1), speed)).v

\* the camera when pass k begins: render()'s argument, then what the tick
\* before left
CameraBefore(k) == IF k = 1 THEN StartCamera ELSE CameraAfter(k - 1)

\* C26: render() renders the scene once before each dispatch pass and never
\* elsewhere: the renders and the passes are counted together, n_frames of
\* each when render() returns; a frame read in pass k shows the scene as pass
\* k found it, not what tick k made of it, and what the final pass did to the
\* scene is in no rendered frame.
C26_RenderThenPass ==
  /\ renders = passes
  /\ renders = (IF InPass THEN frame + 1 ELSE frame)
  /\ passes > 0 => fbo = <<Shown(CameraBefore(passes), StartRenderables)>>
  /\ pc = "end" => renders = n_frames
  /\ \A k \in DOMAIN frameCalls :
       /\ frameCalls[k].shown = <<Shown(CameraBefore(frameCalls[k].pass), StartRenderables)>>
       /\ frameCalls[k].shown[1].camera # CameraAfter(frameCalls[k].pass)
  /\ (pc = "end" /\ n_frames > 0) =>
       /\ camera_position = CameraAfter(n_frames)
       /\ fbo[1].camera # camera_position

\* render() returned after three frames or more; SaveFrames, ticked after the
\* camera had moved, read the frame of the second pass
C26_Witness ==
  /\ pc = "end"
  /\ n_frames >= 3
  /\ behaviours = <<CameraTrajectory, SaveFrames>>
  /\ \E k \in DOMAIN frameCalls : frameCalls[k].pass = 2 /\ frameCalls[k].by = "SaveFrames"
  /\ fbo[1].camera # camera_position

====
